---- MODULE Spec2Model ----
(***************************************************************************)
(* fastPort broker runtime: session registry (SessionManager), subscriber  *)
(* index, per-connection handlers (handleWebSocketConnection), message     *)
(* cache and retry engine (MessageCache) over the durable storage provider *)
(* (SQLStore, DB_TYPE=sqlite or postgres), the admin endpoints and the     *)
(* cleanup job of server.js.                                               *)
(*                                                                         *)
(* Granularity.  Every handler is an async function and every SQLStore     *)
(* method is a database round trip.  One action of this model is the code  *)
(* that runs between two awaits: it starts when an awaited promise         *)
(* resolves and ends at the next await.  A storage statement takes effect  *)
(* (or reads) at the moment of the call, i.e. at the END of the step that  *)
(* calls it, and the caller continues with the value, a copy of the row,   *)
(* in a later step.  Handlers in flight are the records of the bags        *)
(* `tasks` and `admin`.                                                    *)
(***************************************************************************)
EXTENDS Integers, Sequences, FiniteSets, Bags, TLC

\* ------------------------------------------------------------------ bounds
MaxTime == 2          \* the clock stops advancing here
MaxTasks == 2         \* publish handlers and retry callbacks in flight
MaxPublish == 2       \* publish frames accepted in one behaviour
MaxAdmin == 4        \* admin requests accepted in one behaviour
MaxDrop == 1         \* dropSession requests of SpecDrop
MaxFile == 3         \* file frames accepted in one behaviour

\* ------------------------------------------------------- program constants
DefaultRetryInterval == 5000
DefaultMaxRetryLimit == 100
MinBinaryLength == 41
ChunkType == 2
OPEN == 1
CLOSING == 2
CLOSED == 3

\* --------------------------------------------------------------- universes
Sessions == {"A", "B", "A:x"}
Conns == {"c1", "c2", "c3"}
Topics == {"t", "u"}
MsgIds == {"m1", "m2"}
Passwords == {"pw", "bad"}
Users == {"u1"}
FileIds == {"F"}
Null == "null"

\* A session name as the pieces between its ':' characters.
Tokens(s) == IF s = "A:x" THEN <<"A", "x">> ELSE <<s>>

VARIABLES
  sessions,           \* table Session: sessionName -> row
  messages,           \* table Message: messageId -> row
  activeSubscribers,  \* SessionManager.activeSubscribers[session][topic]
  userConnections,    \* SessionManager.userConnections[session][userId]
  deviceTokens,       \* storage device tokens
  retryTimers,        \* MessageCache.retryTimers: timerKey -> timer handle
  timers,             \* armed setTimeout handles not yet fired or cleared
  nextKey,            \* secret keys generated so far
  clientSession,      \* per connection: closure variable clientSession
  clientSubscriptions,\* per connection: closure variable clientSubscriptions
  readyState,         \* per connection: ws.readyState
  userId,             \* per connection: ws.userId
  activeUploads,      \* per connection: ws.activeUploads (fileId -> topic)
  now,                \* Date.now()
  tasks,              \* publish handlers and retry callbacks in flight
  admin,              \* admin requests in flight
  out,                \* frames sent by the last step
  hist                \* history: counters and sets the claims speak about

broker == <<sessions, messages, activeSubscribers, userConnections,
            deviceTokens, retryTimers, timers, nextKey>>
conns == <<clientSession, clientSubscriptions, readyState, userId, activeUploads>>
vars == <<sessions, messages, activeSubscribers, userConnections,
          deviceTokens, retryTimers, timers, nextKey,
          clientSession, clientSubscriptions, readyState, userId, activeUploads,
          now, tasks, admin, out, hist>>

\* ------------------------------------------------------------ record shapes
\* What findByPk gives for a name that has no row.
NoSession ==
  [exists |-> FALSE, password |-> Null, secretKey |-> 0, retryInterval |-> 0,
   maxRetryLimit |-> 0, messageExpiryTime |-> 0, sessionExpiry |-> 0,
   suspended |-> FALSE]

\* What findByPk gives for a messageId that has no row.  `data` is the
\* payload: the n-th publish frame the broker accepts carries payload n.
NoMessage ==
  [exists |-> FALSE, sessionName |-> Null, topic |-> Null, data |-> 0,
   retryCount |-> 0, expiryTime |-> 0, maxRetryLimit |-> 0, retryInterval |-> 0]

\* A frame the broker sends.  `sessionName`, `secretKey` and `data` say where
\* a `message` frame comes from: the session that published it, the key its
\* payload is encrypted under, the payload.
Frame(to, type, topic, messageId) ==
  [to |-> to, type |-> type, topic |-> topic, messageId |-> messageId,
   sessionName |-> Null, secretKey |-> 0, data |-> 0, retry |-> 0,
   isRetry |-> FALSE, firedAt |-> 0, expiryTime |-> 0,
   success |-> TRUE, deliveredTo |-> 0, error |-> Null, fileId |-> Null,
   from |-> Null, n |-> 0, op |-> Null]

Reply(to, type, success, error) ==
  [Frame(to, type, Null, Null) EXCEPT !.success = success, !.error = error]

\* ws.send on a socket that is not OPEN delivers nothing.
Deliverable(frames) == {f \in frames : readyState[f.to] = OPEN}

\* ------------------------------------------------------- sequence helpers
Range(q) == {q[i] : i \in 1..Len(q)}

RECURSIVE Filter(_, _)
Filter(q, x) ==
  IF q = <<>> THEN <<>>
  ELSE IF Head(q) = x THEN Filter(Tail(q), x)
       ELSE <<Head(q)>> \o Filter(Tail(q), x)

Task(kind, pc, ws, sessionName, topic, messageId) ==
  [kind |-> kind, pc |-> pc, ws |-> ws, sessionName |-> sessionName,
   topic |-> topic, messageId |-> messageId, password |-> Null,
   userId |-> Null, session |-> NoSession, message |-> NoMessage, data |-> 0,
   deliveredCount |-> 0, firedAt |-> 0, valid |-> TRUE, fileId |-> Null]

Spawn(bag, t) == bag (+) SetToBag({t})
Retire(bag, t) == bag (-) SetToBag({t})
InFlight == BagCardinality(tasks)

\* ---------------------------------------------------------------- SQLStore
\* getSession: findByPk and toJSON, a copy of the row or null.
getSession(sessionName) == sessions[sessionName]

\* getMessage: findByPk by messageId alone, a copy of the row or null.
getMessage(messageId) == messages[messageId]

\* saveMessage: upsert of the whole row, the primary key being messageId.
saveMessage(messageId, messageData) == [messages EXCEPT ![messageId] = messageData]

\* removeMessage of the store: destroy where messageId.
storageRemoveMessage(messageId) == [messages EXCEPT ![messageId] = NoMessage]

\* updateSession: update where sessionName; no row, no change.
updateSession(sessionName, suspend) ==
  IF sessions[sessionName].exists
  THEN [sessions EXCEPT ![sessionName].suspended = suspend]
  ELSE sessions

\* A deleteSession that destroys nothing.
deleteSessionKeep(sessionName) == sessions

\* deleteSession, first statement: destroy the session's row.
deleteSession(sessionName) == [sessions EXCEPT ![sessionName] = NoSession]

\* deleteSession, second statement: destroy the messages of the session.
deleteSessionMessages(sessionName) ==
  [m \in MsgIds |-> IF messages[m].exists /\ messages[m].sessionName = sessionName
                    THEN NoMessage ELSE messages[m]]

cleanupExpiredMessagesInclusive(at) ==
  [m \in MsgIds |-> IF /\ messages[m].exists
                       /\ messages[m].expiryTime # 0
                       /\ messages[m].expiryTime <= at
                    THEN NoMessage ELSE messages[m]]

\* cleanupExpired, first statement: destroy the messages whose expiryTime is
\* set and lies before `at`, the Date.now() the job read when it started.
cleanupExpiredMessages(at) ==
  [m \in MsgIds |-> IF /\ messages[m].exists
                       /\ messages[m].expiryTime # 0
                       /\ messages[m].expiryTime < at
                    THEN NoMessage ELSE messages[m]]

\* cleanupExpired, second statement: destroy the sessions whose sessionExpiry
\* is set and lies before `at`.
cleanupExpiredSessions(at) ==
  [s \in Sessions |-> IF /\ sessions[s].exists
                         /\ sessions[s].sessionExpiry # 0
                         /\ sessions[s].sessionExpiry < at
                      THEN NoSession ELSE sessions[s]]

\* ---------------------------------------------------------- SessionManager
getSubscribers(sessionName, topic) == activeSubscribers[sessionName][topic]

subscribeAlways(sessionName, topic, ws) ==
  [activeSubscribers EXCEPT ![sessionName][topic] = Append(@, ws)]

\* subscribe: push the socket unless the list includes it.
subscribe(sessionName, topic, ws) ==
  IF ws \in Range(activeSubscribers[sessionName][topic])
  THEN activeSubscribers
  ELSE [activeSubscribers EXCEPT ![sessionName][topic] = Append(@, ws)]

unsubscribe(subs, sessionName, topic, ws) ==
  [subs EXCEPT ![sessionName][topic] = Filter(@, ws)]

RECURSIVE unsubscribeAll(_, _, _, _)
unsubscribeAll(subs, sessionName, topics, ws) ==
  IF topics = {} THEN subs
  ELSE LET t == CHOOSE x \in topics : TRUE
       IN unsubscribeAll(unsubscribe(subs, sessionName, t, ws),
                         sessionName, topics \ {t}, ws)

validateSessionIgnoringSuspended(session, password) ==
  IF ~session.exists THEN [valid |-> FALSE, error |-> "Session not found"]
  ELSE IF session.password # password
       THEN [valid |-> FALSE, error |-> "Invalid password"]
  ELSE [valid |-> TRUE, error |-> Null]

\* validateSession on the record that storage.getSession returned.
validateSession(session, password) ==
  IF ~session.exists THEN [valid |-> FALSE, error |-> "Session not found"]
  ELSE IF session.password # password
       THEN [valid |-> FALSE, error |-> "Invalid password"]
  ELSE IF session.suspended
       THEN [valid |-> FALSE, error |-> "Session is suspended"]
  ELSE [valid |-> TRUE, error |-> Null]

registerUserConnection(sessionName, uid, ws) ==
  [userConnections EXCEPT ![sessionName][uid] = ws]

unregisterUserConnection(sessionName, uid) ==
  [userConnections EXCEPT ![sessionName][uid] = Null]

\* ------------------------------------------------------------ MessageCache
timerKey(sessionName, topic, messageId) == Tokens(sessionName) \o <<topic, messageId>>

\* key.startsWith(`${sessionName}:`)
startsWith(key, sessionName) ==
  /\ Len(key) > Len(Tokens(sessionName))
  /\ SubSeq(key, 1, Len(Tokens(sessionName))) = Tokens(sessionName)

HasTimer(key) == key \in DOMAIN retryTimers

\* delete this.retryTimers[key]
Forget(rt, keys) == [k \in (DOMAIN rt) \ keys |-> rt[k]]

\* this.retryTimers[key] = handle
Remember(rt, key, id) == [k \in (DOMAIN rt) \cup {key} |-> IF k = key THEN id ELSE rt[k]]

\* clearTimeout on the handles stored under `keys`.
Cleared(keys) == {tm \in timers : \A k \in keys \cap DOMAIN retryTimers : tm.id # retryTimers[k]}

\* setTimeout returns a handle that is not in use.
FreshHandle ==
  LET used == {tm.id : tm \in timers} \cup {retryTimers[k] : k \in DOMAIN retryTimers}
  IN CHOOSE i \in 1..(Cardinality(used) + 1) : i \notin used

\* removeMessage: clear and forget the timer stored under the key, then
\* storage.removeMessage(messageId).
removeMessage(sessionName, topic, messageId) ==
  LET key == timerKey(sessionName, topic, messageId) IN
  /\ timers' = Cleared({key})
  /\ retryTimers' = Forget(retryTimers, {key})
  /\ messages' = storageRemoveMessage(messageId)

\* ------------------------------------------------------------------- Init
Init ==
  /\ sessions = [s \in Sessions |-> NoSession]
  /\ messages = [m \in MsgIds |-> NoMessage]
  /\ activeSubscribers = [s \in Sessions |-> [t \in Topics |-> <<>>]]
  /\ userConnections = [s \in Sessions |-> [u \in Users |-> Null]]
  /\ deviceTokens = {}
  /\ retryTimers = <<>>
  /\ timers = {}
  /\ nextKey = 0
  /\ clientSession = [c \in Conns |-> Null]
  /\ clientSubscriptions = [c \in Conns |-> {}]
  /\ readyState = [c \in Conns |-> OPEN]
  /\ userId = [c \in Conns |-> Null]
  /\ activeUploads = [c \in Conns |-> [f \in FileIds |-> Null]]
  /\ now = 0
  /\ tasks = EmptyBag
  /\ admin = EmptyBag
  /\ out = {}
  /\ hist = [acked |-> {}, dropped |-> {}, items |-> <<>>, publishes |-> 0,
             requests |-> 0, held |-> {}, resumed |-> {},
             sent |-> <<>>, got |-> [c \in Conns |-> <<>>], once |-> {},
             issued |-> {}, left |-> {}]

\* A frame can arrive on a socket until its 'close' event.
Receivable(c) == readyState[c] \in {OPEN, CLOSING}

\* ------------------------------------------------- connection: init, close
\* handleInit up to `await sessionManager.validateSession`: the session is
\* read from storage.
handleInit(ws, sessionName, password, uid) ==
  /\ Receivable(ws)
  /\ InFlight < MaxTasks
  /\ tasks' = Spawn(tasks, [Task("init", "validated", ws, sessionName, Null, Null)
                              EXCEPT !.password = password, !.userId = uid,
                                     !.session = getSession(sessionName)])
  /\ out' = {}
  /\ UNCHANGED <<broker, conns, now, admin, hist>>

\* handleInit after the await: refuse, or bind the connection.
handleInitBind(t) ==
  /\ t \in BagToSet(tasks) /\ t.kind = "init"
  /\ tasks' = Retire(tasks, t)
  /\ LET v == validateSession(t.session, t.password) IN
     IF ~v.valid
     THEN /\ out' = Deliverable({Reply(t.ws, "init_response", FALSE, v.error)})
          /\ UNCHANGED <<clientSession, userId, userConnections>>
     ELSE /\ clientSession' = [clientSession EXCEPT ![t.ws] = t.sessionName]
          /\ userId' = [userId EXCEPT ![t.ws] = t.userId]
          /\ userConnections' =
               IF t.userId # Null
               THEN registerUserConnection(t.sessionName, t.userId, t.ws)
               ELSE userConnections
          /\ out' = Deliverable({Reply(t.ws, "init_response", TRUE, Null)})
  /\ UNCHANGED <<sessions, messages, activeSubscribers, deviceTokens,
                 retryTimers, timers, nextKey, clientSubscriptions,
                 readyState, activeUploads, now, admin, hist>>

\* ws.on('close')
onClose(ws) ==
  /\ Receivable(ws)
  /\ readyState' = [readyState EXCEPT ![ws] = CLOSED]
  /\ IF clientSession[ws] # Null
     THEN /\ userConnections' =
               IF userId[ws] # Null
               THEN unregisterUserConnection(clientSession[ws], userId[ws])
               ELSE userConnections
          /\ activeSubscribers' =
               unsubscribeAll(activeSubscribers, clientSession[ws],
                              clientSubscriptions[ws], ws)
     ELSE UNCHANGED <<userConnections, activeSubscribers>>
  /\ out' = {}
  /\ UNCHANGED <<sessions, messages, deviceTokens, retryTimers, timers,
                 nextKey, clientSession, clientSubscriptions, userId,
                 activeUploads, now, tasks, admin, hist>>

\* ------------------------------------------- connection: subscribe, ack
NotInitialized(ws) ==
  /\ out' = Deliverable({Reply(ws, "error", FALSE, "Not initialized")})
  /\ UNCHANGED <<broker, conns, now, tasks, admin, hist>>

handleSubscribe(ws, topic) ==
  /\ Receivable(ws)
  /\ IF clientSession[ws] = Null
     THEN NotInitialized(ws)
     ELSE /\ activeSubscribers' = subscribe(clientSession[ws], topic, ws)
          /\ clientSubscriptions' = [clientSubscriptions EXCEPT ![ws] = @ \cup {topic}]
          /\ out' = Deliverable({[Reply(ws, "subscribe_response", TRUE, Null)
                                    EXCEPT !.topic = topic]})
          /\ hist' = [hist EXCEPT !.left = @ \ {<<ws, topic>>}]
          /\ UNCHANGED <<sessions, messages, userConnections, deviceTokens,
                         retryTimers, timers, nextKey, clientSession,
                         readyState, userId, activeUploads, now, tasks, admin>>

handleUnsubscribe(ws, topic) ==
  /\ Receivable(ws)
  /\ IF clientSession[ws] = Null
     THEN NotInitialized(ws)
     ELSE /\ activeSubscribers' =
               unsubscribe(activeSubscribers, clientSession[ws], topic, ws)
          /\ clientSubscriptions' = [clientSubscriptions EXCEPT ![ws] = @ \ {topic}]
          /\ out' = Deliverable({[Reply(ws, "unsubscribe_response", TRUE, Null)
                                    EXCEPT !.topic = topic]})
          /\ hist' = [hist EXCEPT !.left = @ \cup {<<ws, topic>>}]
          /\ UNCHANGED <<sessions, messages, userConnections, deviceTokens,
                         retryTimers, timers, nextKey, clientSession,
                         readyState, userId, activeUploads, now, tasks, admin>>

\* The payloads that an ack{topic, messageId} of this connection is about:
\* the one cached under messageId, when it was cached for the connection's
\* session and that topic and the connection was sent it.
Acked(ws, topic, messageId) ==
  {messages[m].data : m \in {x \in {messageId} :
     /\ messages[x].exists
     /\ messages[x].sessionName = clientSession[ws]
     /\ messages[x].topic = topic
     /\ hist.items[messages[x].data].got[ws] > 0}}

\* A handleAck without its `if (!clientSession) return`.
handleAckUngated(ws, topic, messageId) ==
  /\ Receivable(ws)
  /\ removeMessage(clientSession[ws], topic, messageId)
  /\ hist' = [hist EXCEPT !.acked = @ \cup Acked(ws, topic, messageId)]
  /\ out' = {}
  /\ UNCHANGED <<sessions, activeSubscribers, userConnections,
                 deviceTokens, nextKey, conns, now, tasks, admin>>

\* handleAck: removeMessage, and nothing else.
handleAck(ws, topic, messageId) ==
  /\ Receivable(ws)
  /\ IF clientSession[ws] = Null
     THEN /\ out' = {}
          /\ UNCHANGED <<broker, conns, now, tasks, admin, hist>>
     ELSE /\ removeMessage(clientSession[ws], topic, messageId)
          /\ hist' = [hist EXCEPT !.acked = @ \cup Acked(ws, topic, messageId)]
          /\ out' = {}
          /\ UNCHANGED <<sessions, activeSubscribers, userConnections,
                         deviceTokens, nextKey, conns, now, tasks, admin>>

\* ------------------------------------------------------------ handlePublish
\* The `message` frames of one fan-out or one retry: one for each of the
\* places `targets` of the subscriber list.
MessageFrames(subscribers, targets, topic, messageId, sessionName, secretKey, data) ==
  {[Frame(subscribers[i], "message", topic, messageId)
      EXCEPT !.sessionName = sessionName, !.secretKey = secretKey, !.data = data,
             !.n = i]
   : i \in targets}

\* The number of frames a send to the places `targets` gives connection c.
Sends(subscribers, targets, c) == Cardinality({i \in targets : subscribers[i] = c})

\* History: the connections whose last subscribe or unsubscribe frame for
\* the topic was an unsubscribe, at the moment a fan-out reads the list.
Left(topic) == {c \in Conns : <<c, topic>> \in hist.left}

\* History: the `message` frames with payload `data` each connection was sent.
Counted(items, data, subscribers, targets) ==
  [items EXCEPT ![data].got = [c \in Conns |-> @[c] + Sends(subscribers, targets, c)]]

\* A session check that lets a suspended session through.
RefusedWhenMissing(session) == ~session.exists

\* The session check of handlePublish, handleFileSignal and retryMessage.
Refused(session) == ~session.exists \/ session.suspended

FanoutTargetsWithSender(ws, subscribers) ==
  {i \in 1..Len(subscribers) : readyState[subscribers[i]] = OPEN}

\* The places of the subscriber list a fan-out of `ws` sends to.
FanoutTargets(ws, subscribers) ==
  {i \in 1..Len(subscribers) : subscribers[i] # ws /\ readyState[subscribers[i]] = OPEN}

\* The places of the subscriber list a retry sends to.
RetryTargets(subscribers) ==
  {i \in 1..Len(subscribers) : readyState[subscribers[i]] = OPEN}

\* cacheMessage: the cacheItem built from the frame and the session's settings.
cacheItem(sessionName, topic, data, session) ==
  [exists |-> TRUE, sessionName |-> sessionName, topic |-> topic, data |-> data,
   retryCount |-> 0,
   expiryTime |-> IF session.messageExpiryTime # 0
                  THEN now + session.messageExpiryTime ELSE 0,
   maxRetryLimit |-> session.maxRetryLimit,
   retryInterval |-> session.retryInterval]

\* handlePublish up to `await sessionManager.getSession`.
handlePublish(ws, topic, messageId) ==
  /\ Receivable(ws)
  /\ IF clientSession[ws] = Null
     THEN NotInitialized(ws)
     ELSE /\ InFlight < MaxTasks
          /\ hist.publishes < MaxPublish
          /\ tasks' = Spawn(tasks, [Task("publish", "session", ws, clientSession[ws],
                                         topic, messageId)
                                      EXCEPT !.session = getSession(clientSession[ws]),
                                             !.data = hist.publishes + 1])
          /\ hist' = [hist EXCEPT !.publishes = @ + 1,
                                  !.items = Append(@, [by |-> ws, messageId |-> messageId,
                                                       secretKey |-> 0,
                                                       maxRetryLimit |-> 0,
                                                       got |-> [c \in Conns |-> 0],
                                                       left |-> {}])]
          /\ out' = {}
          /\ UNCHANGED <<broker, conns, now, admin>>

\* handlePublish from the session check to `await messageCache.cacheMessage`:
\* refuse, or fan out and save the cacheItem.
publishFanout(t) ==
  /\ t \in BagToSet(tasks) /\ t.kind = "publish" /\ t.pc = "session"
  /\ IF Refused(t.session)
     THEN /\ tasks' = Retire(tasks, t)
          /\ out' = Deliverable({Reply(t.ws, "publish_response", FALSE,
                                       "Session suspended or invalid")})
          /\ UNCHANGED <<broker, conns, now, admin, hist>>
     ELSE LET cs == clientSession[t.ws]
              subscribers == getSubscribers(cs, t.topic)
              targets == FanoutTargets(t.ws, subscribers)
          IN
          /\ out' = MessageFrames(subscribers, targets, t.topic, t.messageId, cs,
                                  t.session.secretKey, t.data)
          /\ messages' = saveMessage(t.messageId, cacheItem(cs, t.topic, t.data, t.session))
          /\ hist' = [hist EXCEPT !.items[t.data] =
                        [@ EXCEPT !.secretKey = t.session.secretKey,
                                  !.maxRetryLimit = t.session.maxRetryLimit,
                                  !.got = [c \in Conns |-> Sends(subscribers, targets, c)],
                                  !.left = Left(t.topic)]]
          /\ tasks' = Spawn(Retire(tasks, t),
                            [t EXCEPT !.pc = "cached",
                                      !.deliveredCount = Cardinality(targets)])
          /\ UNCHANGED <<sessions, activeSubscribers, userConnections, deviceTokens,
                         retryTimers, timers, nextKey, conns, now, admin>>

\* handlePublish after cacheMessage: call scheduleRetry (which reads the
\* message) or removeMessage.
publishCached(t) ==
  /\ t \in BagToSet(tasks) /\ t.kind = "publish" /\ t.pc = "cached"
  /\ LET cs == clientSession[t.ws] IN
     IF t.deliveredCount > 0
     THEN /\ tasks' = Spawn(Retire(tasks, t),
                            [t EXCEPT !.pc = "sched_got", !.sessionName = cs,
                                      !.message = getMessage(t.messageId)])
          /\ UNCHANGED <<messages, retryTimers, timers>>
     ELSE /\ removeMessage(cs, t.topic, t.messageId)
          /\ tasks' = Spawn(Retire(tasks, t), [t EXCEPT !.pc = "reply"])
  /\ out' = {}
  /\ UNCHANGED <<sessions, activeSubscribers, userConnections, deviceTokens,
                 nextKey, conns, now, admin, hist>>

\* The end of a handler that ran scheduleRetry or removeMessage: handlePublish
\* sends publish_response (its offline-push block does nothing for a session
\* without fcmConfig), retryMessage just ends.
Finish(t) ==
  /\ tasks' = Retire(tasks, t)
  /\ IF t.kind = "publish"
     THEN /\ out' = Deliverable({[Reply(t.ws, "publish_response", TRUE, Null)
                                    EXCEPT !.messageId = t.messageId,
                                           !.deliveredTo = t.deliveredCount]})
     ELSE /\ out' = {}

publishReply(t) ==
  /\ t \in BagToSet(tasks) /\ t.kind = "publish" /\ t.pc = "reply"
  /\ Finish(t)
  /\ UNCHANGED <<broker, conns, now, admin, hist>>

\* handlePublish when `await sessionManager.getSession` rejects: the catch
\* answers 'Internal Error' and returns.
publishSessionFails(t) ==
  /\ t \in BagToSet(tasks) /\ t.kind = "publish" /\ t.pc = "session"
  /\ tasks' = Retire(tasks, t)
  /\ out' = Deliverable({Reply(t.ws, "publish_response", FALSE, "Internal Error")})
  /\ UNCHANGED <<broker, conns, now, admin, hist>>

\* handlePublish when `await messageCache.cacheMessage` rejects: the fan-out
\* is done, nothing is saved, the catch logs and the handler goes on to its
\* reply.
publishCacheFails(t) ==
  /\ t \in BagToSet(tasks) /\ t.kind = "publish" /\ t.pc = "session"
  /\ ~Refused(t.session)
  /\ LET cs == clientSession[t.ws]
         subscribers == getSubscribers(cs, t.topic)
         targets == FanoutTargets(t.ws, subscribers)
     IN
     /\ out' = MessageFrames(subscribers, targets, t.topic, t.messageId, cs,
                             t.session.secretKey, t.data)
     /\ hist' = [hist EXCEPT !.items[t.data] =
                   [@ EXCEPT !.secretKey = t.session.secretKey,
                             !.maxRetryLimit = t.session.maxRetryLimit,
                             !.got = [c \in Conns |-> Sends(subscribers, targets, c)],
                             !.left = Left(t.topic)]]
     /\ tasks' = Spawn(Retire(tasks, t),
                       [t EXCEPT !.pc = "reply",
                                 !.deliveredCount = Cardinality(targets)])
  /\ UNCHANGED <<broker, conns, now, admin>>

\* handlePublish when a storage call of scheduleRetry or removeMessage
\* rejects (getMessage or destroy after cacheMessage, saveMessage after
\* getMessage): the catch logs and the handler goes on to its reply.
publishScheduleFails(t) ==
  /\ t \in BagToSet(tasks) /\ t.kind = "publish" /\ t.pc \in {"cached", "sched_got"}
  /\ tasks' = Spawn(Retire(tasks, t), [t EXCEPT !.pc = "reply"])
  /\ out' = {}
  /\ UNCHANGED <<broker, conns, now, admin, hist>>

\* ------------------------------------------------------------ scheduleRetry
\* scheduleRetry after `await this.storage.getMessage`: give up, remove, or
\* count the retry and save.
scheduleRetry(t) ==
  /\ t \in BagToSet(tasks) /\ t.pc = "sched_got"
  /\ IF ~t.message.exists
     THEN /\ Finish(t)
          /\ UNCHANGED <<messages, retryTimers, timers>>
     ELSE LET message == t.message
              limit == message.maxRetryLimit   \* cacheMessage always sets it
              counted == [message EXCEPT !.retryCount = @ + 1]
          IN
          IF \/ message.expiryTime # 0 /\ now > message.expiryTime
             \/ message.retryCount >= limit
          THEN /\ removeMessage(t.sessionName, t.topic, t.messageId)
               /\ Finish(t)
          ELSE /\ messages' = saveMessage(t.messageId, counted)
               /\ tasks' = Spawn(Retire(tasks, t),
                                 [t EXCEPT !.pc = "sched_saved", !.message = counted])
               /\ out' = {}
               /\ UNCHANGED <<retryTimers, timers>>
  /\ UNCHANGED <<sessions, activeSubscribers, userConnections, deviceTokens,
                 nextKey, conns, now, admin, hist>>

\* scheduleRetry after `await this.storage.saveMessage`: arm the timer and
\* store its handle under the key, whatever handle was stored there.
scheduleRetryArm(t) ==
  /\ t \in BagToSet(tasks) /\ t.pc = "sched_saved"
  /\ LET message == t.message
         interval == IF message.retryInterval # 0 THEN message.retryInterval
                     ELSE t.session.retryInterval
         id == FreshHandle
     IN
     /\ timers' = timers \cup {[id |-> id, sessionName |-> t.sessionName,
                                topic |-> t.topic, messageId |-> t.messageId,
                                due |-> now + interval]}
     /\ retryTimers' = Remember(retryTimers,
                                timerKey(t.sessionName, t.topic, t.messageId), id)
  /\ Finish(t)
  /\ UNCHANGED <<sessions, messages, activeSubscribers, userConnections,
                 deviceTokens, nextKey, conns, now, admin, hist>>

\* ------------------------------------------------------------- retryMessage
\* A retry timer fires: retryMessage up to `await messageCache.getMessage`.
timerFires(tm) ==
  /\ tm \in timers
  /\ now >= tm.due
  /\ InFlight < MaxTasks
  /\ timers' = timers \ {tm}
  /\ tasks' = Spawn(tasks, [Task("retry", "got", Null, tm.sessionName, tm.topic,
                                 tm.messageId)
                              EXCEPT !.message = getMessage(tm.messageId),
                                     !.firedAt = now])
  /\ out' = {}
  /\ UNCHANGED <<sessions, messages, activeSubscribers, userConnections,
                 deviceTokens, retryTimers, nextKey, conns, now,
                 admin, hist>>

\* retryMessage after getMessage: stop, or read the session.
retryLoaded(t) ==
  /\ t \in BagToSet(tasks) /\ t.kind = "retry" /\ t.pc = "got"
  /\ tasks' = IF ~t.message.exists THEN Retire(tasks, t)
              ELSE Spawn(Retire(tasks, t),
                         [t EXCEPT !.pc = "session",
                                   !.session = getSession(t.sessionName)])
  /\ out' = {}
  /\ UNCHANGED <<broker, conns, now, admin, hist>>

\* retryMessage after getSession: remove the message of a missing or
\* suspended session, else send to every open subscriber and call
\* scheduleRetry (or removeMessage when nobody is open).
retryMessage(t) ==
  /\ t \in BagToSet(tasks) /\ t.kind = "retry" /\ t.pc = "session"
  /\ LET message == t.message
         subscribers == getSubscribers(t.sessionName, t.topic)
         targets == RetryTargets(subscribers)
     IN
     IF Refused(t.session)
     THEN /\ removeMessage(t.sessionName, t.topic, t.messageId)
          /\ tasks' = Retire(tasks, t)
          /\ out' = {}
          /\ UNCHANGED hist
     ELSE /\ out' = {[f EXCEPT !.isRetry = TRUE, !.retry = message.retryCount,
                               !.firedAt = t.firedAt,
                               !.expiryTime = message.expiryTime]
                     : f \in MessageFrames(subscribers, targets, t.topic, t.messageId,
                                           message.sessionName,
                                           hist.items[message.data].secretKey,
                                           message.data)}
          /\ hist' = [hist EXCEPT !.items = Counted(@, message.data, subscribers, targets)]
          /\ IF targets # {}
             THEN /\ tasks' = Spawn(Retire(tasks, t),
                                    [t EXCEPT !.pc = "sched_got",
                                              !.message = getMessage(t.messageId)])
                  /\ UNCHANGED <<messages, retryTimers, timers>>
             ELSE /\ removeMessage(t.sessionName, t.topic, t.messageId)
                  /\ tasks' = Retire(tasks, t)
  /\ UNCHANGED <<sessions, activeSubscribers, userConnections, deviceTokens,
                 nextKey, conns, now, admin>>

\* ---------------------------------------------------------------- the clock
Tick ==
  /\ now < MaxTime
  /\ now' = now + 1
  /\ out' = {}
  /\ UNCHANGED <<broker, conns, tasks, admin, hist>>

\* ----------------------------------------------------- admin: createSession
OrDefault(x, d) == IF x = 0 THEN d ELSE x

Call(op, sessionName, password, secretKey, session) ==
  [op |-> op, pc |-> "read", sessionName |-> sessionName, password |-> password,
   secretKey |-> secretKey, suspend |-> FALSE, retryInterval |-> 0,
   maxRetryLimit |-> 0, messageExpiryTime |-> 0, sessionExpiry |-> 0,
   session |-> session, at |-> 0]

\* An admin request up to its `await this.storage.getSession`.
Request(op, sessionName, password, secretKey) ==
  Call(op, sessionName, password, secretKey, getSession(sessionName))

Accept(req) ==
  /\ hist.requests < MaxAdmin
  /\ admin' = Spawn(admin, req)
  /\ hist' = [hist EXCEPT !.requests = @ + 1]
  /\ out' = {}
  /\ UNCHANGED <<broker, conns, now, tasks>>

\* The HTTP answer to an admin request: res.json(result), which for
\* createSession carries the secretKey, or status 400 with the error.
Answer(a, success, error) ==
  [Reply(Null, "http", success, error)
     EXCEPT !.op = a.op, !.sessionName = a.sessionName,
            !.secretKey = IF success /\ a.op = "createSession" THEN a.secretKey ELSE 0]

\* The request throws: the endpoint answers 400 {success:false, error}.
Throw(a, error) ==
  /\ admin' = Retire(admin, a)
  /\ out' = {Answer(a, FALSE, error)}
  /\ UNCHANGED <<broker, conns, now, tasks, hist>>

\* POST /api/createSession up to `await this.storage.getSession`.
createSession(sessionName, password, retryInterval, maxRetryLimit, messageExpiryTime, sessionExpiry) ==
  Accept([Request("createSession", sessionName, password, 0)
            EXCEPT !.retryInterval = retryInterval,
                   !.maxRetryLimit = maxRetryLimit,
                   !.messageExpiryTime = messageExpiryTime,
                   !.sessionExpiry = sessionExpiry])

\* The session record createSession builds.
newSession(a, secretKey) ==
  [exists |-> TRUE, password |-> a.password, secretKey |-> secretKey,
   retryInterval |-> OrDefault(a.retryInterval, DefaultRetryInterval),
   maxRetryLimit |-> OrDefault(a.maxRetryLimit, DefaultMaxRetryLimit),
   messageExpiryTime |-> a.messageExpiryTime, sessionExpiry |-> a.sessionExpiry,
   suspended |-> FALSE]

\* A createSession that does not look at what getSession returned: it
\* generates a key and writes the row.
createSessionStoreAnyway(a) ==
  /\ a \in BagToSet(admin) /\ a.op = "createSession" /\ a.pc = "read"
  /\ nextKey' = nextKey + 1
  /\ sessions' = [sessions EXCEPT ![a.sessionName] = newSession(a, nextKey + 1)]
  /\ admin' = Spawn(Retire(admin, a),
                    [a EXCEPT !.pc = "stored", !.secretKey = nextKey + 1])
  /\ out' = {}
  /\ UNCHANGED <<messages, activeSubscribers, userConnections,
                 deviceTokens, retryTimers, timers, conns, now,
                 tasks, hist>>

\* createSession after getSession: 'Session already exists', or generate the
\* secretKey and insert the row; the insert of a name that got a row in the
\* meantime fails on the primary key.
createSessionStore(a) ==
  /\ a \in BagToSet(admin) /\ a.op = "createSession" /\ a.pc = "read"
  /\ IF a.session.exists
     THEN Throw(a, "Session already exists")
     ELSE IF sessions[a.sessionName].exists
     THEN /\ nextKey' = nextKey + 1
          /\ admin' = Retire(admin, a)
          /\ out' = {Answer(a, FALSE, "Validation error")}
          /\ UNCHANGED <<sessions, messages, activeSubscribers, userConnections,
                         deviceTokens, retryTimers, timers, conns, now,
                         tasks, hist>>
     ELSE /\ nextKey' = nextKey + 1
          /\ sessions' = [sessions EXCEPT ![a.sessionName] = newSession(a, nextKey + 1)]
          /\ admin' = Spawn(Retire(admin, a),
                            [a EXCEPT !.pc = "stored", !.secretKey = nextKey + 1])
          /\ hist' = [hist EXCEPT !.once = IF a.maxRetryLimit = 0
                                           THEN @ \cup {nextKey + 1} ELSE @]
          /\ out' = {}
          /\ UNCHANGED <<messages, activeSubscribers, userConnections,
                         deviceTokens, retryTimers, timers, conns, now,
                         tasks>>

\* createSession after storage.createSession: a fresh subscriber map for the
\* name, and the answer.
createSessionDone(a) ==
  /\ a \in BagToSet(admin) /\ a.op = "createSession" /\ a.pc = "stored"
  /\ activeSubscribers' = [activeSubscribers EXCEPT ![a.sessionName] = [t \in Topics |-> <<>>]]
  /\ admin' = Retire(admin, a)
  /\ hist' = [hist EXCEPT !.issued = @ \cup {a.secretKey}]
  /\ out' = {Answer(a, TRUE, Null)}
  /\ UNCHANGED <<sessions, messages, userConnections, deviceTokens,
                 retryTimers, timers, nextKey, conns, now, tasks>>

\* ------------------------------------------------------- admin: dropSession
CredentialsMatchPasswordOnly(a) == a.session.password = a.password

CredentialsMatch(a) ==
  a.session.password = a.password /\ a.session.secretKey = a.secretKey

\* POST /api/dropSession up to `await this.storage.getSession`.
dropSession(sessionName, password, secretKey) ==
  Accept(Request("dropSession", sessionName, password, secretKey))

\* The connections dropSession closes: the open ones in the session's
\* subscriber lists.
Closed(sessionName) ==
  {c \in Conns : /\ readyState[c] = OPEN
                 /\ \E t \in Topics : c \in Range(activeSubscribers[sessionName][t])}

\* dropSession after getSession: check, close the subscribed connections,
\* delete the subscriber map, destroy the session's row.
dropSessionDelete(a) ==
  /\ a \in BagToSet(admin) /\ a.op = "dropSession" /\ a.pc = "read"
  /\ IF ~a.session.exists THEN Throw(a, "Session not found")
     ELSE IF ~CredentialsMatch(a) THEN Throw(a, "Invalid credentials")
     ELSE /\ readyState' = [c \in Conns |-> IF c \in Closed(a.sessionName)
                                            THEN CLOSING ELSE readyState[c]]
          /\ activeSubscribers' = [activeSubscribers EXCEPT ![a.sessionName] =
                                     [t \in Topics |-> <<>>]]
          /\ sessions' = deleteSession(a.sessionName)
          /\ admin' = Spawn(Retire(admin, a), [a EXCEPT !.pc = "deleted"])
          /\ out' = {}
          /\ UNCHANGED <<messages, userConnections, deviceTokens, retryTimers,
                         timers, nextKey, clientSession,
                         clientSubscriptions, userId, activeUploads, now, tasks, hist>>

\* clearSession: clear and forget every timer whose key starts with the name.
clearSession(sessionName) ==
  LET keys == {k \in DOMAIN retryTimers : startsWith(k, sessionName)} IN
  /\ timers' = Cleared(keys)
  /\ retryTimers' = Forget(retryTimers, keys)

\* storage.deleteSession after the session's row is gone: destroy the
\* messages of the session.
dropSessionMessages(a) ==
  /\ a \in BagToSet(admin) /\ a.op = "dropSession" /\ a.pc = "deleted"
  /\ messages' = deleteSessionMessages(a.sessionName)
  /\ admin' = Spawn(Retire(admin, a), [a EXCEPT !.pc = "purged"])
  /\ out' = {}
  /\ UNCHANGED <<sessions, activeSubscribers, userConnections, deviceTokens,
                 retryTimers, timers, nextKey, conns, now, tasks, hist>>

\* The endpoint after dropSession: messageCache.clearSession, then the answer.
dropSessionDone(a) ==
  /\ a \in BagToSet(admin) /\ a.op = "dropSession" /\ a.pc = "purged"
  /\ clearSession(a.sessionName)
  /\ admin' = Retire(admin, a)
  /\ hist' = [hist EXCEPT !.dropped = @ \cup {a.session.secretKey}]
  /\ out' = {Answer(a, TRUE, Null)}
  /\ UNCHANGED <<sessions, messages, activeSubscribers, userConnections,
                 deviceTokens, nextKey, conns, now, tasks>>

\* ---------------------------------------------------- admin: suspendSession
\* POST /api/suspendSession up to `await this.storage.getSession`.
suspendSession(sessionName, password, secretKey, suspend) ==
  Accept([Request("suspendSession", sessionName, password, secretKey)
            EXCEPT !.suspend = suspend])

\* The payloads cached for a session.
CachedFor(sessionName) ==
  {messages[m].data : m \in {x \in MsgIds : /\ messages[x].exists
                                            /\ messages[x].sessionName = sessionName}}

\* History of a suspendSession that takes effect: suspend:true holds the
\* payloads cached for the session at that moment, suspend:false marks the
\* held ones as resumed.
Suspended(h, sessionName, suspend) ==
  IF ~sessions[sessionName].exists THEN h
  ELSE IF suspend THEN [h EXCEPT !.held = @ \cup CachedFor(sessionName)]
  ELSE [h EXCEPT !.resumed = @ \cup (h.held \cap CachedFor(sessionName))]

\* suspendSession after getSession: check, then storage.updateSession.
suspendSessionUpdate(a) ==
  /\ a \in BagToSet(admin) /\ a.op = "suspendSession" /\ a.pc = "read"
  /\ IF ~a.session.exists THEN Throw(a, "Session not found")
     ELSE IF ~CredentialsMatch(a) THEN Throw(a, "Invalid credentials")
     ELSE /\ sessions' = updateSession(a.sessionName, a.suspend)
          /\ hist' = Suspended(hist, a.sessionName, a.suspend)
          /\ admin' = Retire(admin, a)
          /\ out' = {Answer(a, TRUE, Null)}
          /\ UNCHANGED <<messages, activeSubscribers, userConnections,
                         deviceTokens, retryTimers, timers, nextKey,
                         conns, now, tasks>>

\* -------------------------------------------------------------- cleanup job
\* The interval of the cleanup job elapses: cleanupExpired reads Date.now()
\* and runs up to the end of its first statement.
cleanupExpired ==
  /\ \A a \in BagToSet(admin) : a.op # "cleanup"
  /\ messages' = cleanupExpiredMessages(now)
  /\ admin' = Spawn(admin, [Call("cleanup", Null, Null, 0, NoSession)
                              EXCEPT !.at = now])
  /\ out' = {}
  /\ UNCHANGED <<sessions, activeSubscribers, userConnections, deviceTokens,
                 retryTimers, timers, nextKey, conns, now, tasks, hist>>

\* cleanupExpired, second statement.
cleanupSessions(a) ==
  /\ a \in BagToSet(admin) /\ a.op = "cleanup"
  /\ sessions' = cleanupExpiredSessions(a.at)
  /\ admin' = Retire(admin, a)
  /\ out' = {}
  /\ UNCHANGED <<messages, activeSubscribers, userConnections, deviceTokens,
                 retryTimers, timers, nextKey, conns, now, tasks, hist>>

\* ------------------------------------------------------ file stream-through
\* The frames a file signal or a chunk is forwarded as.
Forwarded(ws, type, topic, fileId) ==
  LET subscribers == getSubscribers(clientSession[ws], topic) IN
  {[Frame(subscribers[i], type, topic, Null)
      EXCEPT !.fileId = fileId, !.from = ws, !.sessionName = clientSession[ws],
             !.n = i]
   : i \in FanoutTargets(ws, subscribers)}

\* The other connections that are subscribed to a topic of the session of
\* `ws` and open.
Live(ws, topic) ==
  {c \in Conns \ {ws} : /\ c \in Range(getSubscribers(clientSession[ws], topic))
                         /\ readyState[c] = OPEN}

\* History: a file frame received on a bound connection.  The k-th such
\* frame carries payload k.
Received(ws, type, topic, fileId, length, typeByte) ==
  [from |-> ws, type |-> type, topic |-> topic, fileId |-> fileId,
   length |-> length, typeByte |-> typeByte,
   known |-> activeUploads[ws][fileId] # Null,
   live |-> IF topic = Null THEN {} ELSE Live(ws, topic)]

\* History: payload k goes to each connection once for every frame of
\* `frames` that is sent to it.
Relayed(got, frames, k) ==
  [c \in Conns |-> got[c] \o [i \in 1..Cardinality({f \in frames : f.to = c}) |-> k]]

\* handleFileSignal up to `await sessionManager.getSession`.
handleFileSignal(ws, type, topic, fileId) ==
  /\ Receivable(ws)
  /\ IF clientSession[ws] = Null
     THEN NotInitialized(ws)
     ELSE /\ InFlight < MaxTasks
          /\ Len(hist.sent) < MaxFile
          /\ tasks' = Spawn(tasks, [Task(type, "session", ws, clientSession[ws], topic, Null)
                                      EXCEPT !.fileId = fileId,
                                             !.data = Len(hist.sent) + 1,
                                             !.session = getSession(clientSession[ws])])
          /\ hist' = [hist EXCEPT !.sent =
                        Append(@, Received(ws, type, topic, fileId, 0, 0))]
          /\ out' = {}
          /\ UNCHANGED <<broker, conns, now, admin>>

\* handleFileSignal after getSession: refuse, or record / forget the upload
\* and forward the signal.
fileSignal(t) ==
  /\ t \in BagToSet(tasks) /\ t.kind \in {"init_file", "end_file"}
  /\ tasks' = Retire(tasks, t)
  /\ IF Refused(t.session)
     THEN /\ out' = Deliverable({Reply(t.ws, "error", FALSE, "Session Invalid or Suspended")})
          /\ UNCHANGED <<activeUploads, hist>>
     ELSE LET frames == {[f EXCEPT !.data = t.data]
                         : f \in Forwarded(t.ws, t.kind, t.topic, t.fileId)}
          IN
          /\ activeUploads' = [activeUploads EXCEPT ![t.ws][t.fileId] =
                                 IF t.kind = "init_file" THEN t.topic ELSE Null]
          /\ out' = frames
          /\ hist' = [hist EXCEPT !.got = Relayed(@, frames, t.data)]
  /\ UNCHANGED <<broker, clientSession, clientSubscriptions, readyState, userId,
                 now, admin>>

\* A handleBinaryMessage without its test of the type byte.
handleBinaryMessageAnyType(ws, length, type, fileId) ==
  /\ Receivable(ws)
  /\ IF clientSession[ws] = Null
     THEN /\ out' = {}
          /\ UNCHANGED hist
     ELSE LET k == Len(hist.sent) + 1
              topic == activeUploads[ws][fileId]
              frames == IF length >= MinBinaryLength /\ topic # Null
                        THEN {[f EXCEPT !.data = k]
                              : f \in Forwarded(ws, "chunk", topic, fileId)}
                        ELSE {}
          IN
          /\ Len(hist.sent) < MaxFile
          /\ out' = frames
          /\ hist' = [hist EXCEPT
                        !.sent = Append(@, Received(ws, "binary", topic, fileId,
                                                    length, type)),
                        !.got = Relayed(@, frames, k)]
  /\ UNCHANGED <<broker, conns, now, tasks, admin>>

\* handleBinaryMessage on a buffer of `length` bytes whose first byte is
\* `type` and whose bytes 1..36 spell `fileId`.
handleBinaryMessage(ws, length, type, fileId) ==
  /\ Receivable(ws)
  /\ IF clientSession[ws] = Null
     THEN /\ out' = {}
          /\ UNCHANGED hist
     ELSE LET k == Len(hist.sent) + 1
              topic == activeUploads[ws][fileId]
              frames == IF /\ length >= MinBinaryLength
                           /\ type = ChunkType
                           /\ topic # Null
                        THEN {[f EXCEPT !.data = k]
                              : f \in Forwarded(ws, "chunk", topic, fileId)}
                        ELSE {}
          IN
          /\ Len(hist.sent) < MaxFile
          /\ out' = frames
          /\ hist' = [hist EXCEPT
                        !.sent = Append(@, Received(ws, "binary", topic, fileId,
                                                    length, type)),
                        !.got = Relayed(@, frames, k)]
  /\ UNCHANGED <<broker, conns, now, tasks, admin>>

\* ------------------------------------------------------ device registration
\* handleFCMTokenRegistration up to `await sessionManager.getSession`.
handleFCMTokenRegistration(ws, uid, valid) ==
  /\ Receivable(ws)
  /\ IF clientSession[ws] = Null
     THEN /\ out' = Deliverable({Reply(ws, "fcm_token_response", FALSE, "Not initialized")})
          /\ UNCHANGED <<broker, conns, now, tasks, admin, hist>>
     ELSE /\ InFlight < MaxTasks
          /\ tasks' = Spawn(tasks, [Task("fcm", "session", ws, clientSession[ws], Null, Null)
                                      EXCEPT !.userId = uid, !.valid = valid,
                                             !.session = getSession(clientSession[ws])])
          /\ out' = {}
          /\ UNCHANGED <<broker, conns, now, admin, hist>>

\* After getSession: a missing session, a wrong hash or an undecipherable
\* payload is answered with a failure; else registerDeviceToken reads the
\* session again.
fcmVerify(t) ==
  /\ t \in BagToSet(tasks) /\ t.kind = "fcm" /\ t.pc = "session"
  /\ IF ~t.session.exists \/ ~t.valid
     THEN /\ tasks' = Retire(tasks, t)
          /\ out' = Deliverable({Reply(t.ws, "fcm_token_response", FALSE, "failed")})
     ELSE /\ tasks' = Spawn(Retire(tasks, t),
                            [t EXCEPT !.pc = "register",
                                      !.sessionName = clientSession[t.ws],
                                      !.session = getSession(clientSession[t.ws])])
          /\ out' = {}
  /\ UNCHANGED <<broker, conns, now, admin, hist>>

\* registerDeviceToken after its getSession: save the token of an existing
\* session; its errors are swallowed, so the answer is a success either way.
fcmRegister(t) ==
  /\ t \in BagToSet(tasks) /\ t.kind = "fcm" /\ t.pc = "register"
  /\ tasks' = Retire(tasks, t)
  /\ deviceTokens' = IF t.session.exists
                     THEN deviceTokens \cup {<<t.sessionName, t.userId>>}
                     ELSE deviceTokens
  /\ out' = Deliverable({Reply(t.ws, "fcm_token_response", TRUE, Null)})
  /\ UNCHANGED <<sessions, messages, activeSubscribers, userConnections,
                 retryTimers, timers, nextKey, conns, now, admin, hist>>

handleOtherClosing(ws, error) ==
  /\ Receivable(ws)
  /\ out' = Deliverable({Reply(ws, "error", FALSE, error)})
  /\ readyState' = [readyState EXCEPT ![ws] = CLOSING]
  /\ UNCHANGED <<broker, clientSession, clientSubscriptions, userId,
                 activeUploads, now, tasks, admin, hist>>

\* A text frame of an unknown type ('Unknown message type') or one that
\* JSON.parse rejects ('Internal server error').
handleOther(ws, error) ==
  /\ Receivable(ws)
  /\ out' = Deliverable({Reply(ws, "error", FALSE, error)})
  /\ UNCHANGED <<broker, conns, now, tasks, admin, hist>>

\* ------------------------------------------------------------ continuations
\* A handler in flight resumes after its await.
ResumeInit == \E t \in BagToSet(tasks) : handleInitBind(t)

ResumePublish ==
  \E t \in BagToSet(tasks) :
    \/ publishFanout(t)
    \/ publishCached(t)
    \/ publishReply(t)

StorageFails ==
  \E t \in BagToSet(tasks) :
    \/ publishSessionFails(t)
    \/ publishCacheFails(t)
    \/ publishScheduleFails(t)

ResumeSchedule == \E t \in BagToSet(tasks) : scheduleRetry(t) \/ scheduleRetryArm(t)

ResumeRetry ==
  \/ \E tm \in timers : timerFires(tm)
  \/ \E t \in BagToSet(tasks) : retryLoaded(t) \/ retryMessage(t)
  \/ ResumeSchedule

ResumeFile == \E t \in BagToSet(tasks) : fileSignal(t)

ResumeFcm == \E t \in BagToSet(tasks) : fcmVerify(t) \/ fcmRegister(t)

ResumeCreate == \E a \in BagToSet(admin) : createSessionStore(a) \/ createSessionDone(a)

ResumeDrop ==
  \E a \in BagToSet(admin) :
    \/ dropSessionDelete(a)
    \/ dropSessionMessages(a)
    \/ dropSessionDone(a)

ResumeSuspend == \E a \in BagToSet(admin) : suspendSessionUpdate(a)

ResumeCleanup == \E a \in BagToSet(admin) : cleanupSessions(a)

\* The session exists and createSession has answered with its secretKey.
Known(s) == sessions[s].exists /\ sessions[s].secretKey \in hist.issued

\* The secret key an admin caller presents: the session's once createSession
\* has answered with it, or a wrong one.
KeysFor(s) == ({sessions[s].secretKey} \cap hist.issued) \cup {0}

\* ------------------------------------------------------------------- Spec
\* Every operation, over the whole universe of names.
Next ==
  \/ \E s \in Sessions, p \in Passwords, i \in {0, 1}, l \in {0, 1}, e \in {0, 1},
        x \in {0, 1} :
       createSession(s, p, i, l, e, x)
  \/ \E s \in Sessions, p \in Passwords : \E k \in KeysFor(s) : dropSession(s, p, k)
  \/ \E s \in Sessions, p \in Passwords, b \in BOOLEAN :
       \E k \in KeysFor(s) : suspendSession(s, p, k, b)
  \/ ResumeCreate \/ ResumeDrop \/ ResumeSuspend
  \/ cleanupExpired \/ ResumeCleanup
  \/ \E c \in Conns, s \in Sessions, p \in Passwords, u \in Users \cup {Null} :
       handleInit(c, s, p, u)
  \/ \E c \in Conns, t \in Topics : handleSubscribe(c, t)
  \/ \E c \in Conns, t \in Topics : handleUnsubscribe(c, t)
  \/ \E c \in Conns, t \in Topics, m \in MsgIds : handlePublish(c, t, m)
  \/ \E c \in Conns, t \in Topics, m \in MsgIds : handleAck(c, t, m)
  \/ \E c \in Conns, y \in {"init_file", "end_file"}, t \in Topics, f \in FileIds :
       handleFileSignal(c, y, t, f)
  \/ \E c \in Conns, n \in {MinBinaryLength - 1, MinBinaryLength},
        y \in {ChunkType - 1, ChunkType}, f \in FileIds :
       handleBinaryMessage(c, n, y, f)
  \/ \E c \in Conns, u \in Users, v \in BOOLEAN : handleFCMTokenRegistration(c, u, v)
  \/ \E c \in Conns, e \in {"Unknown message type", "Internal server error"} :
       handleOther(c, e)
  \/ \E c \in Conns : onClose(c)
  \/ ResumeInit \/ ResumePublish \/ ResumeRetry \/ ResumeFile \/ ResumeFcm
  \/ Tick

Spec == Init /\ [][Next]_vars

\* Inputs of the focused specifications: a createSession for a name that no
\* request is in flight for and that does not exist, an init frame on a
\* connection that is not bound and has no init in flight.
Fresh(s) ==
  /\ ~sessions[s].exists
  /\ \A a \in BagToSet(admin) : a.sessionName # s

New(c) ==
  /\ clientSession[c] = Null
  /\ \A t \in BagToSet(tasks) : ~(t.kind = "init" /\ t.ws = c)

\* A subscribe frame that adds the connection to a subscriber list.
Joins(c, topic) ==
  /\ clientSession[c] # Null
  /\ c \notin Range(getSubscribers(clientSession[c], topic))

\* ------------------------------------------------------------- SpecRetry
\* One tenant, a publisher c1 and a subscriber c2: publish, retry, ack.
NextRetry ==
  \/ \E e \in {0, 1} : Fresh("A") /\ createSession("A", "pw", 1, 1, e, 0)
  \/ ResumeCreate
  \/ \E c \in {"c1", "c2"} : New(c) /\ handleInit(c, "A", "pw", Null)
  \/ ResumeInit
  \/ handleSubscribe("c2", "t")
  \/ handlePublish("c1", "t", "m1")
  \/ handleAck("c2", "t", "m1")
  \/ ResumePublish
  \/ ResumeRetry
  \/ cleanupExpired
  \/ ResumeCleanup
  \/ Tick

SpecRetry == Init /\ [][NextRetry]_vars

\* --------------------------------------------------------------- SpecIso
\* Two tenants with the same password, topic and messageId: c1 publishes in
\* A, c2 subscribes and may send init again for the other session.
Rebind(c, s) ==
  /\ clientSession[c] \notin {Null, s}
  /\ \A t \in BagToSet(tasks) : ~(t.kind = "init" /\ t.ws = c)

NextIso ==
  \/ \E s \in {"A", "B"} : Fresh(s) /\ createSession(s, "pw", 1, 1, 0, 0)
  \/ ResumeCreate
  \/ \E c \in {"c1", "c2"} : New(c) /\ handleInit(c, "A", "pw", Null)
  \/ Rebind("c2", "B") /\ handleInit("c2", "B", "pw", Null)
  \/ ResumeInit
  \/ Joins("c2", "t") /\ handleSubscribe("c2", "t")
  \/ handlePublish("c1", "t", "m1")
  \/ ResumePublish
  \/ ResumeRetry
  \/ Tick

SpecIso == Init /\ [][NextIso]_vars

\* -------------------------------------------------------------- SpecDrop
\* One tenant that is created and dropped while a message of it is being
\* retried.
NextDrop ==
  \/ Fresh("A") /\ hist.requests = 0 /\ createSession("A", "pw", 1, 1, 0, 0)
  \/ ResumeCreate
  \/ \E c \in {"c1", "c2"} : New(c) /\ handleInit(c, "A", "pw", Null)
  \/ ResumeInit
  \/ Joins("c2", "t") /\ handleSubscribe("c2", "t")
  \/ handlePublish("c1", "t", "m1")
  \/ /\ Known("A")
     /\ hist.requests <= MaxDrop
     /\ dropSession("A", "pw", sessions["A"].secretKey)
  \/ ResumeDrop
  \/ ResumePublish
  \/ ResumeRetry
  \/ Tick

SpecDrop == Init /\ [][NextDrop]_vars

\* -------------------------------------------------------------- SpecGate
\* c1 and c2 work in session A; c3 never completes an init (its password is
\* wrong) and sends every kind of frame.
NextGate ==
  \/ Fresh("A") /\ createSession("A", "pw", 1, 1, 0, 0)
  \/ ResumeCreate
  \/ \E c \in {"c1", "c2"} : New(c) /\ handleInit(c, "A", "pw", Null)
  \/ New("c3") /\ handleInit("c3", "A", "bad", "u1")
  \/ ResumeInit
  \/ handleSubscribe("c2", "t")
  \/ handlePublish("c1", "t", "m1")
  \/ ResumePublish
  \/ ResumeSchedule
  \/ handleSubscribe("c3", "t")
  \/ handleUnsubscribe("c3", "t")
  \/ handlePublish("c3", "t", "m1")
  \/ handleAck("c3", "t", "m1")
  \/ \E y \in {"init_file", "end_file"} : handleFileSignal("c3", y, "t", "F")
  \/ handleBinaryMessage("c3", MinBinaryLength, ChunkType, "F")
  \/ handleFCMTokenRegistration("c3", "u1", TRUE)
  \/ handleOther("c3", "Unknown message type")

SpecGate == Init /\ [][NextGate]_vars

\* ----------------------------------------------------------- SpecSuspend
\* One tenant that is suspended, resumed or dropped, one admin request at a
\* time, while c1 publishes.
NextSuspend ==
  \/ Fresh("A") /\ createSession("A", "pw", 1, 1, 0, 0)
  \/ ResumeCreate
  \/ \E c \in {"c1", "c2"} : New(c) /\ handleInit(c, "A", "pw", Null)
  \/ ResumeInit
  \/ handleSubscribe("c2", "t")
  \/ \E b \in BOOLEAN :
       /\ admin = EmptyBag
       /\ sessions["A"].exists /\ sessions["A"].suspended # b
       /\ suspendSession("A", "pw", sessions["A"].secretKey, b)
  \/ ResumeSuspend
  \/ /\ admin = EmptyBag
     /\ sessions["A"].exists
     /\ dropSession("A", "pw", sessions["A"].secretKey)
  \/ ResumeDrop
  \/ handlePublish("c1", "t", "m1")
  \/ ResumePublish
  \/ ResumeSchedule

SpecSuspend == Init /\ [][NextSuspend]_vars

\* ------------------------------------------------------------- SpecQuiet
\* One tenant that is suspended and resumed, one admin request at a time,
\* while c1 publishes and the retry timers run.
NextQuiet ==
  \/ Fresh("A") /\ createSession("A", "pw", 1, 1, 0, 0)
  \/ ResumeCreate
  \/ \E c \in {"c1", "c2"} : New(c) /\ handleInit(c, "A", "pw", Null)
  \/ ResumeInit
  \/ Joins("c2", "t") /\ handleSubscribe("c2", "t")
  \/ \E b \in BOOLEAN :
       /\ admin = EmptyBag
       /\ sessions["A"].exists /\ sessions["A"].suspended # b
       /\ suspendSession("A", "pw", sessions["A"].secretKey, b)
  \/ ResumeSuspend
  \/ handlePublish("c1", "t", "m1")
  \/ ResumePublish
  \/ ResumeRetry
  \/ Tick

SpecQuiet == Init /\ [][NextQuiet]_vars

\* -------------------------------------------------------------- SpecMute
\* One tenant that is suspended and resumed, one admin request at a time,
\* while c1 uploads a file.
NextMute ==
  \/ Fresh("A") /\ createSession("A", "pw", 1, 1, 0, 0)
  \/ ResumeCreate
  \/ \E c \in {"c1", "c2"} : New(c) /\ handleInit(c, "A", "pw", Null)
  \/ ResumeInit
  \/ Joins("c2", "t") /\ handleSubscribe("c2", "t")
  \/ \E b \in BOOLEAN :
       /\ admin = EmptyBag
       /\ sessions["A"].exists /\ sessions["A"].suspended # b
       /\ suspendSession("A", "pw", sessions["A"].secretKey, b)
  \/ ResumeSuspend
  \/ \E y \in {"init_file", "end_file"} : handleFileSignal("c1", y, "t", "F")
  \/ ResumeFile
  \/ handleBinaryMessage("c1", MinBinaryLength, ChunkType, "F")

SpecMute == Init /\ [][NextMute]_vars

\* -------------------------------------------------------------- SpecFile
\* One tenant; c1 uploads file F on topic t, with well-formed and malformed
\* binary frames; c2 subscribes and may announce the same fileId itself.
NextFile ==
  \/ Fresh("A") /\ createSession("A", "pw", 1, 1, 0, 0)
  \/ ResumeCreate
  \/ \E c \in {"c1", "c2"} : New(c) /\ handleInit(c, "A", "pw", Null)
  \/ ResumeInit
  \/ \E c \in {"c1", "c2"} : Joins(c, "t") /\ handleSubscribe(c, "t")
  \/ \E y \in {"init_file", "end_file"} : handleFileSignal("c1", y, "t", "F")
  \/ handleFileSignal("c2", "init_file", "t", "F")
  \/ ResumeFile
  \/ \E n \in {MinBinaryLength - 1, MinBinaryLength},
        y \in {ChunkType - 1, ChunkType} :
       handleBinaryMessage("c1", n, y, "F")

SpecFile == Init /\ [][NextFile]_vars

\* ------------------------------------------------------------- SpecEmpty
\* One tenant; c1 publishes m1 on topic t or u, c2 may subscribe to t, c1
\* to u, and c3 to u before the first publish, so that a publish may reach
\* a subscriber other than its sender, only its sender, or nobody.
NextEmpty ==
  \/ Fresh("A") /\ createSession("A", "pw", 1, 1, 0, 0)
  \/ ResumeCreate
  \/ \E c \in {"c1", "c2"} : New(c) /\ handleInit(c, "A", "pw", Null)
  \/ hist.publishes = 0 /\ New("c3") /\ handleInit("c3", "A", "pw", Null)
  \/ ResumeInit
  \/ Joins("c2", "t") /\ handleSubscribe("c2", "t")
  \/ Joins("c1", "u") /\ handleSubscribe("c1", "u")
  \/ hist.publishes = 0 /\ Joins("c3", "u") /\ handleSubscribe("c3", "u")
  \/ \E tp \in Topics : handlePublish("c1", tp, "m1")
  \/ ResumePublish
  \/ ResumeRetry
  \/ Tick

SpecEmpty == Init /\ [][NextEmpty]_vars

\* -------------------------------------------------------------- SpecOnce
\* One tenant created with maxRetryLimit 0 or 1; c1 publishes, c2 receives,
\* the retry timers run.
NextOnce ==
  \/ \E l \in {0, 1} : Fresh("A") /\ createSession("A", "pw", 1, l, 0, 0)
  \/ ResumeCreate
  \/ \E c \in {"c1", "c2"} : New(c) /\ handleInit(c, "A", "pw", Null)
  \/ ResumeInit
  \/ Joins("c2", "t") /\ handleSubscribe("c2", "t")
  \/ handlePublish("c1", "t", "m1")
  \/ ResumePublish
  \/ ResumeRetry
  \/ Tick

SpecOnce == Init /\ [][NextOnce]_vars

\* ------------------------------------------------------------- SpecAdmin
\* One session name that is created, created again, suspended and dropped,
\* with the right credentials, a wrong password, a wrong key or the key of a
\* dropped session, while c2 subscribes.
NextAdmin ==
  \/ \E p \in Passwords : createSession("A", p, 1, 1, 0, 0)
  \/ ResumeCreate
  \/ New("c2") /\ handleInit("c2", "A", "pw", Null)
  \/ ResumeInit
  \/ Joins("c2", "t") /\ handleSubscribe("c2", "t")
  \/ \E p \in Passwords : \E k \in KeysFor("A") \cup hist.dropped :
       dropSession("A", p, k)
  \/ ResumeDrop
  \/ \E p \in Passwords : \E k \in KeysFor("A") \cup hist.dropped :
       suspendSession("A", p, k, TRUE)
  \/ ResumeSuspend

SpecAdmin == Init /\ [][NextAdmin]_vars

\* -------------------------------------------------------------- SpecCred
\* One tenant with a subscriber and a cached message; suspendSession and
\* dropSession are called with the right credentials, with a wrong password
\* and with a wrong secretKey.
NextCred ==
  \/ Fresh("A") /\ hist.requests = 0 /\ createSession("A", "pw", 1, 1, 0, 0)
  \/ ResumeCreate
  \/ \E c \in {"c1", "c2"} : New(c) /\ handleInit(c, "A", "pw", Null)
  \/ ResumeInit
  \/ Joins("c2", "t") /\ handleSubscribe("c2", "t")
  \/ hist.publishes = 0 /\ handlePublish("c1", "t", "m1")
  \/ ResumePublish
  \/ ResumeSchedule
  \/ \E p \in Passwords : \E k \in KeysFor("A") : dropSession("A", p, k)
  \/ ResumeDrop
  \/ \E p \in Passwords : \E k \in KeysFor("A") :
       suspendSession("A", p, k, ~sessions["A"].suspended)
  \/ ResumeSuspend

SpecCred == Init /\ [][NextCred]_vars

\* -------------------------------------------------------------- SpecInit
\* One tenant that is suspended and resumed, one admin request at a time;
\* c1 and c2 send init frames with the right and with a wrong password, and
\* every other kind of frame while they are not bound to a session.
NextInit ==
  \/ Fresh("A") /\ hist.requests = 0 /\ createSession("A", "pw", 1, 1, 0, 0)
  \/ ResumeCreate
  \/ /\ admin = EmptyBag /\ Known("A")
     /\ suspendSession("A", "pw", sessions["A"].secretKey, ~sessions["A"].suspended)
  \/ ResumeSuspend
  \/ \E c \in {"c1", "c2"}, p \in Passwords, u \in {Null, "u1"} :
       New(c) /\ handleInit(c, "A", p, u)
  \/ ResumeInit
  \/ \E c \in {"c1", "c2"} :
       /\ clientSession[c] = Null
       /\ \/ handleSubscribe(c, "t")
          \/ handleUnsubscribe(c, "t")
          \/ handlePublish(c, "t", "m1")
          \/ handleAck(c, "t", "m1")
          \/ \E y \in {"init_file", "end_file"} : handleFileSignal(c, y, "t", "F")
          \/ handleBinaryMessage(c, MinBinaryLength, ChunkType, "F")
          \/ handleFCMTokenRegistration(c, "u1", TRUE)

SpecInit == Init /\ [][NextInit]_vars

\* ------------------------------------------------------------- SpecTwice
\* One tenant with a subscriber and a cached message; dropSession is called
\* with the session's credentials, one request at a time, also after it has
\* answered success.
NextTwice ==
  \/ Fresh("A") /\ hist.requests = 0 /\ createSession("A", "pw", 1, 1, 0, 0)
  \/ ResumeCreate
  \/ \E c \in {"c1", "c2"} : New(c) /\ handleInit(c, "A", "pw", Null)
  \/ ResumeInit
  \/ Joins("c2", "t") /\ handleSubscribe("c2", "t")
  \/ hist.publishes = 0 /\ handlePublish("c1", "t", "m1")
  \/ ResumePublish
  \/ ResumeSchedule
  \/ \E k \in hist.issued : admin = EmptyBag /\ dropSession("A", "pw", k)
  \/ ResumeDrop

SpecTwice == Init /\ [][NextTwice]_vars

\* ------------------------------------------------------------- SpecFault
\* One tenant, a publisher c1 and the subscribers c2 and c3; any storage
\* call of a publish handler may fail.
NextFault ==
  \/ Fresh("A") /\ hist.requests = 0 /\ createSession("A", "pw", 1, 1, 0, 0)
  \/ ResumeCreate
  \/ \E c \in Conns : New(c) /\ handleInit(c, "A", "pw", Null)
  \/ ResumeInit
  \/ \E c \in {"c2", "c3"} : Joins(c, "t") /\ handleSubscribe(c, "t")
  \/ handlePublish("c1", "t", "m1")
  \/ ResumePublish
  \/ ResumeSchedule
  \/ StorageFails

SpecFault == Init /\ [][NextFault]_vars

\* ------------------------------------------------------------- SpecStray
\* One tenant; c1 has an upload and publishes once, to t or to u; c1 and
\* c2 subscribe to t, c3 subscribes to u and may close; c1 and c2 send
\* frames of an unknown type and frames that are not JSON.
NextStray ==
  \/ Fresh("A") /\ hist.requests = 0 /\ createSession("A", "pw", 1, 1, 0, 0)
  \/ ResumeCreate
  \/ \E c \in Conns : New(c) /\ handleInit(c, "A", "pw", Null)
  \/ ResumeInit
  \/ \E c \in {"c1", "c2"} : Joins(c, "t") /\ handleSubscribe(c, "t")
  \/ Joins("c3", "u") /\ handleSubscribe("c3", "u")
  \/ onClose("c3")
  \/ hist.sent = <<>> /\ handleFileSignal("c1", "init_file", "t", "F")
  \/ ResumeFile
  \/ \E tp \in Topics : hist.publishes = 0 /\ handlePublish("c1", tp, "m1")
  \/ ResumePublish
  \/ ResumeSchedule
  \/ \E c \in {"c1", "c2"}, e \in {"Unknown message type", "Internal server error"} :
       handleOther(c, e)

SpecStray == Init /\ [][NextStray]_vars

\* ------------------------------------------------------------- SpecLeave
\* Tenants A and B; c2 subscribes to t, unsubscribes and subscribes again,
\* and can bind to B in between, while c1 publishes to t in A, c3 is
\* subscribed and the message is retried.
NextLeave ==
  \/ \E s \in {"A", "B"} : Fresh(s) /\ createSession(s, "pw", 1, 1, 0, 0)
  \/ ResumeCreate
  \/ \E c \in Conns : New(c) /\ handleInit(c, "A", "pw", Null)
  \/ Rebind("c2", "B") /\ handleInit("c2", "B", "pw", Null)
  \/ ResumeInit
  \/ \E c \in {"c2", "c3"} : Joins(c, "t") /\ handleSubscribe(c, "t")
  \/ "t" \in clientSubscriptions["c2"] /\ handleUnsubscribe("c2", "t")
  \/ hist.publishes = 0 /\ handlePublish("c1", "t", "m1")
  \/ ResumePublish
  \/ ResumeRetry
  \/ Tick

SpecLeave == Init /\ [][NextLeave]_vars

\* ------------------------------------------------------------- SpecClose
\* Tenants A and B; c2 and c3 bind to A, subscribe and close in any order,
\* c2 can also bind to B, subscribe to a second topic any number of times
\* and unsubscribe.
NextClose ==
  \/ \E s \in {"A", "B"} : Fresh(s) /\ createSession(s, "pw", 1, 1, 0, 0)
  \/ ResumeCreate
  \/ \E c \in {"c2", "c3"} :
       \/ New(c) /\ handleInit(c, "A", "pw", Null)
       \/ Joins(c, "t") /\ handleSubscribe(c, "t")
       \/ onClose(c)
  \/ Rebind("c2", "B") /\ handleInit("c2", "B", "pw", Null)
  \/ clientSession["c2"] # Null /\ handleSubscribe("c2", "u")
  \/ \E tp \in clientSubscriptions["c2"] : handleUnsubscribe("c2", tp)
  \/ ResumeInit

SpecClose == Init /\ [][NextClose]_vars

\* ------------------------------------------------------------- SpecSweep
\* Tenant A with or without a sessionExpiry and a messageExpiryTime, tenant
\* B with a late sessionExpiry; once c2 has subscribed c1 publishes, the
\* clock advances and the cleanup job runs.
NextSweep ==
  \/ \E e \in {0, 1}, x \in {0, 1} : Fresh("A") /\ createSession("A", "pw", 1, 1, e, x)
  \/ sessions["A"].exists /\ Fresh("B") /\ createSession("B", "pw", 1, 1, 0, MaxTime)
  \/ ResumeCreate
  \/ \E c \in {"c1", "c2"} :
       sessions["B"].exists /\ New(c) /\ handleInit(c, "A", "pw", Null)
  \/ ResumeInit
  \/ Joins("c2", "t") /\ handleSubscribe("c2", "t")
  \/ \E m \in MsgIds :
       /\ InFlight = 0 /\ hist.publishes = (IF m = "m1" THEN 0 ELSE 1)
       /\ "c2" \in Range(getSubscribers("A", "t"))
       /\ handlePublish("c1", "t", m)
  \/ ResumePublish
  \/ ResumeSchedule
  \/ cleanupExpired
  \/ ResumeCleanup
  \/ hist.publishes > 0 /\ Tick

SpecSweep == Init /\ [][NextSweep]_vars

\* ==================================================== delivery properties
\* The live retry timers of a messageId.
TimersOf(m) == {tm \in timers : tm.messageId = m}

\* C1 (tenant isolation): no `message` frame carrying data published in one
\* session, sent by a fan-out or by a retry, goes to a connection bound to
\* another session.
TenantIsolation ==
  \A f \in out :
    f.type = "message" => clientSession[f.to] \in {f.sessionName, Null}

\* C6 (drop quiesces): once dropSession of a session has answered success, no
\* `message` frame of a publish in that session is sent to any connection.
DropQuiesces ==
  \A f \in out : f.type = "message" => f.secretKey \notin hist.dropped

\* A step that handles a frame other than init received on connection c.
OtherFrame(c) ==
  \/ \E tp \in Topics : handleSubscribe(c, tp) \/ handleUnsubscribe(c, tp)
  \/ \E tp \in Topics, m \in MsgIds : handlePublish(c, tp, m) \/ handleAck(c, tp, m)
  \/ \E y \in {"init_file", "end_file"}, tp \in Topics, f \in FileIds :
       handleFileSignal(c, y, tp, f)
  \/ \E n \in {MinBinaryLength - 1, MinBinaryLength},
        y \in {ChunkType - 1, ChunkType}, f \in FileIds :
       handleBinaryMessage(c, n, y, f)
  \/ \E u \in Users, v \in BOOLEAN : handleFCMTokenRegistration(c, u, v)
  \/ \E e \in {"Unknown message type", "Internal server error"} : handleOther(c, e)

\* C7 (authenticated gate): a frame other than init on a connection that has
\* not completed a successful init changes no broker state (sessions,
\* subscriber index, user map, message cache, retry timers, upload table,
\* device tokens, handlers in flight) and sends nothing to another connection.
AuthenticatedGate ==
  [][\A c \in Conns :
       clientSession[c] = Null /\ OtherFrame(c) =>
         /\ UNCHANGED <<sessions, activeSubscribers, userConnections, messages,
                        retryTimers, timers, activeUploads, deviceTokens,
                        tasks, admin>>
         /\ \A f \in out' : f.to = c]_vars

\* A connection that never completed an init is answered 'Not initialized'
\* while a message is cached and the topic has a subscriber.
AuthenticatedGateWitness ==
  \E f \in out :
    /\ f.error = "Not initialized"
    /\ clientSession[f.to] = Null
    /\ \E m \in MsgIds : messages[m].exists
    /\ \E s \in Sessions, tp \in Topics : activeSubscribers[s][tp] # <<>>

\* C10 (publish refused): the step that handles a publish frame whose session
\* was read as suspended, or as missing, sends the publisher
\* publish_response{success:false, error} and nothing else, and leaves the
\* message cache and the retry timers as they are.
PublishRefused ==
  [][\A t \in BagToSet(tasks) :
       /\ t.kind = "publish" /\ t.pc = "session"
       /\ t.session.suspended \/ ~t.session.exists
       /\ publishFanout(t)
       => /\ \A f \in out' : /\ f.type = "publish_response"
                              /\ f.to = t.ws
                              /\ ~f.success /\ f.error # Null
          /\ readyState[t.ws] = OPEN => out' # {}
          /\ UNCHANGED <<messages, retryTimers, timers>>]_vars

\* The publisher of a suspended session is refused while another connection
\* is subscribed to the topic and open.
PublishRefusedWitness ==
  \E f \in out :
    /\ f.type = "publish_response" /\ ~f.success
    /\ clientSession[f.to] # Null
    /\ sessions[clientSession[f.to]].suspended
    /\ \E c \in Conns \ {f.to}, tp \in Topics :
         /\ c \in Range(getSubscribers(clientSession[f.to], tp))
         /\ readyState[c] = OPEN

\* C2 (ack terminality): once an ack for a cached message has been processed,
\* no `message` frame of that message is sent any more, whatever the
\* interleaving of the ack with a retry callback.
AckTerminality ==
  \A f \in out : f.type = "message" => f.data \notin hist.acked

\* C3 (at most one live retry timer): at any moment a messageId has at most
\* one pending retry timer, also when publishes repeat the messageId.
AtMostOneRetryTimer ==
  \A m \in MsgIds : Cardinality(TimersOf(m)) <= 1

\* C4 (retry ceiling): a subscriber is sent a published message at most
\* 1 + maxRetryLimit times, the limit being the one captured at publish time.
RetryCeiling ==
  \A d \in 1..Len(hist.items) : \A c \in Conns :
    hist.items[d].got[c] > 0 => hist.items[d].got[c] <= 1 + hist.items[d].maxRetryLimit

\* C5 (expiry monotonicity): a message with an expiry time is not delivered
\* by a retry that fires at or after that time.
ExpiryMonotonicity ==
  \A f \in out :
    f.type = "message" /\ f.isRetry /\ f.expiryTime # 0 => f.firedAt < f.expiryTime

\* C8 (subscribe, publish, ack round trip): with one publish, the fan-out
\* sends the subscriber exactly one `message` frame, and after the
\* subscriber's ack the cache holds no entry and no timer for the messageId.
RoundTrip ==
  hist.publishes = 1 =>
    /\ \A f \in out :
         f.type = "message" /\ ~f.isRetry => hist.items[f.data].got[f.to] = 1
    /\ \A m \in MsgIds :
         (\E d \in hist.acked : hist.items[d].messageId = m) =>
           ~getMessage(m).exists /\ TimersOf(m) = {}

\* C9 (ack confirmation): when a subscriber acks a cached message, the step
\* that processes the ack sends ack_received{messageId} to the publisher's
\* connection, if that connection is still bound to a session.
AckConfirmation ==
  [][\A c \in Conns, tp \in Topics, m \in MsgIds :
       /\ handleAck(c, tp, m)
       /\ Acked(c, tp, m) # {}
       /\ clientSession[hist.items[messages[m].data].by] # Null
       /\ readyState[hist.items[messages[m].data].by] = OPEN
       => \E f \in out' : /\ f.type = "ack_received"
                            /\ f.to = hist.items[messages[m].data].by
                            /\ f.messageId = m]_vars

\* ================================================= suspension properties
\* The frames that deliver something to a subscriber.
Delivery == {"message", "init_file", "end_file", "chunk"}

\* C11 (suspended session is silent): while the suspended flag of a session
\* is true, no `message` frame (fan-out or retry), no relayed init_file or
\* end_file and no relayed file chunk is sent to the session's subscribers.
SuspendedSilence ==
  \A f \in out : f.type \in Delivery => ~sessions[f.sessionName].suspended

\* C12 (suspension does not resurrect): a message that was cached when
\* suspendSession(suspend:true) took effect is not sent again once
\* suspendSession(suspend:false) has taken effect, whenever the two calls
\* fall relative to the message's retry timer.
NoResurrection ==
  \A f \in out : f.type = "message" => f.data \notin hist.resumed

\* ============================================== file transfer properties
\* The payloads 1..k in order.
Ordered(k) == [i \in 1..k |-> i]

\* The frames received so far are one upload: init_file{topic, fileId}, then
\* well-formed chunk frames of that fileId, then end_file, all on one
\* connection.
Transfer(q) ==
  /\ Len(q) >= 2
  /\ q[1].type = "init_file" /\ q[Len(q)].type = "end_file"
  /\ q[Len(q)].topic = q[1].topic
  /\ \A i \in 1..Len(q) : q[i].from = q[1].from /\ q[i].fileId = q[1].fileId
  /\ \A i \in 2..(Len(q) - 1) : /\ q[i].type = "binary"
                                 /\ q[i].length >= MinBinaryLength
                                 /\ q[i].typeByte = ChunkType

\* No handleFileSignal is in flight.
SignalsDone == \A t \in BagToSet(tasks) : t.kind \notin {"init_file", "end_file"}

\* C13 (file round trip): when a connection has sent init_file, N chunk
\* frames and end_file one after another and the broker has handled them,
\* every other connection that was subscribed to the topic and open from the
\* first frame on has been sent init_file, the N chunks in send order and
\* end_file, each once and in that order.
FileRoundTrip ==
  Transfer(hist.sent) /\ SignalsDone =>
    \A c \in hist.sent[1].live :
      c \in Live(hist.sent[1].from, hist.sent[1].topic) =>
        hist.got[c] = Ordered(Len(hist.sent))

\* C14 (silent drop): the step that handles a binary frame which is shorter
\* than 41 bytes, or whose type byte is not 0x02, or whose fileId is not in
\* the upload table of the connection it came on, sends nothing, to the
\* subscribers or to the sender, and changes no broker state.
SilentDrop ==
  [][\A c \in Conns, n \in {MinBinaryLength - 1, MinBinaryLength},
        y \in {ChunkType - 1, ChunkType}, f \in FileIds :
       /\ handleBinaryMessage(c, n, y, f)
       /\ n < MinBinaryLength \/ y # ChunkType \/ activeUploads[c][f] = Null
       => /\ out' = {}
          /\ hist'.got = hist.got
          /\ UNCHANGED <<broker, conns, now, tasks, admin>>]_vars

\* The last frame received is a binary frame that was dropped for one reason
\* alone (too short or of another type with the fileId announced, or well
\* formed with the fileId not announced on that connection) while another
\* connection is subscribed to the topic and open.
SilentDropWitness ==
  /\ hist.sent # <<>>
  /\ LET last == hist.sent[Len(hist.sent)] IN
     /\ last.type = "binary"
     /\ \/ last.known /\ last.length < MinBinaryLength /\ last.typeByte = ChunkType
        \/ last.known /\ last.length >= MinBinaryLength /\ last.typeByte # ChunkType
        \/ /\ ~last.known /\ last.length >= MinBinaryLength /\ last.typeByte = ChunkType
           /\ \E c \in Conns \ {last.from} : activeUploads[c][last.fileId] # Null
     /\ Live(last.from, "t") # {}
     /\ \A c \in Conns : Len(hist.sent) \notin Range(hist.got[c])
     /\ out = {}

\* ================================================== publish edge cases
\* C15 (publish to nobody): a publish whose fan-out reached no subscriber
\* (none subscribed, or only the sender) is answered with
\* publish_response{success:true, deliveredTo:0}, and when its handler
\* completes, no other handler being at work on that messageId, there is no
\* cache entry and no retry timer for its messageId.
EmptyPublish ==
  [][\A t \in BagToSet(tasks) :
       /\ t.kind = "publish" /\ t.deliveredCount = 0 /\ publishReply(t)
       /\ \A x \in BagToSet(tasks') : x.messageId # t.messageId
       => /\ \A f \in out' : /\ f.type = "publish_response" /\ f.to = t.ws
                              /\ f.success /\ f.deliveredTo = 0
          /\ readyState[t.ws] = OPEN => out' # {}
          /\ ~messages'[t.messageId].exists
          /\ \A tm \in timers' : tm.messageId # t.messageId]_vars

\* C16 (maxRetryLimit 0): a message published in a session that was created
\* with maxRetryLimit = 0 is delivered by the fan-out only; no retry sends it.
DeliverOnce ==
  \A f \in out : f.type = "message" /\ f.secretKey \in hist.once => ~f.isRetry

\* ======================================================= admin properties
\* C17 (duplicate create): a createSession for a name whose session exists
\* is answered with the error 'Session already exists' and leaves the
\* session's record (password, secretKey, settings, suspended flag) and its
\* subscribers as they are.
DuplicateCreate ==
  [][\A a \in BagToSet(admin) :
       a.op = "createSession" /\ a.session.exists /\ createSessionStore(a)
       => /\ out' = {Answer(a, FALSE, "Session already exists")}
          /\ UNCHANGED <<sessions, activeSubscribers, nextKey>>]_vars

\* A second createSession of the name, with another password, has just been
\* refused while the session is suspended and has a subscriber.
DuplicateCreateWitness ==
  /\ \E f \in out : /\ f.type = "http" /\ f.op = "createSession"
                     /\ f.error = "Session already exists"
  /\ sessions["A"].exists /\ sessions["A"].suspended
  /\ sessions["A"].password = "pw"
  /\ getSubscribers("A", "t") # <<>>

\* C18 (create, drop, create): once dropSession of a name has answered
\* success, no session carries the dropped secretKey; a createSession that
\* then finds the name free creates the session and answers success with a
\* secretKey that is not a dropped one; and a dropSession or suspendSession
\* that presents a dropped secretKey to the session created afterwards is
\* answered 'Invalid credentials' and changes nothing.
Recreate ==
  [][/\ \A s \in Sessions :
          sessions'[s].exists => sessions'[s].secretKey \notin hist'.dropped
     /\ \A a \in BagToSet(admin) :
          /\ /\ a.op = "createSession" /\ createSessionStore(a)
             /\ ~a.session.exists /\ ~sessions[a.sessionName].exists
             => sessions'[a.sessionName].exists
          /\ a.op = "createSession" /\ createSessionDone(a)
             => /\ out' = {Answer(a, TRUE, Null)}
                /\ \A f \in out' : f.secretKey # 0 /\ f.secretKey \notin hist.dropped
          /\ /\ a.op \in {"dropSession", "suspendSession"}
             /\ a.secretKey \in hist.dropped
             /\ a.session.exists /\ a.session.secretKey \notin hist.dropped
             /\ dropSessionDelete(a) \/ suspendSessionUpdate(a)
             => /\ out' = {Answer(a, FALSE, "Invalid credentials")}
                /\ UNCHANGED <<broker, conns, tasks>>]_vars

\* The name was created, dropped and created again, and an admin request
\* that presented the first secretKey with the right password has just
\* been refused.
RecreateWitness ==
  /\ hist.dropped # {}
  /\ sessions["A"].exists /\ sessions["A"].secretKey \notin hist.dropped
  /\ ~sessions["A"].suspended
  /\ \E f \in out : /\ f.type = "http" /\ f.op \in {"dropSession", "suspendSession"}
                     /\ f.error = "Invalid credentials"
  /\ hist.requests = 4

\* C20 (wrong credentials): a suspendSession or dropSession that presents a
\* password or a secretKey different from the session's is answered with
\* the error 'Invalid credentials', and the session's record and suspended
\* flag, the connections, the subscriptions, the cached messages and the
\* retry timers are all as before.
BadCredentials ==
  [][\A a \in BagToSet(admin) :
       /\ a.op \in {"dropSession", "suspendSession"}
       /\ a.session.exists
       /\ a.session.password # a.password \/ a.session.secretKey # a.secretKey
       /\ dropSessionDelete(a) \/ suspendSessionUpdate(a)
       => /\ out' = {Answer(a, FALSE, "Invalid credentials")}
          /\ UNCHANGED <<broker, conns, tasks>>]_vars

\* A request with a wrong password or a wrong secretKey has just been
\* refused, while the session has a subscriber, a cached message and a
\* retry timer.
BadCredentialsWitness ==
  /\ \E f \in out : /\ f.type = "http" /\ f.op \in {"dropSession", "suspendSession"}
                     /\ f.error = "Invalid credentials"
  /\ \A a \in BagToSet(admin) : a.op \notin {"dropSession", "suspendSession"}
  /\ hist.requests = 2
  /\ sessions["A"].exists /\ ~sessions["A"].suspended
  /\ getSubscribers("A", "t") # <<>>
  /\ CachedFor("A") # {}
  /\ timers # {}

\* ================================================== connection properties
\* A step that handles a subscribe, unsubscribe, publish, ack, init_file,
\* end_file, register_fcm_token or binary frame received on connection c.
LaterFrame(c) ==
  \/ \E tp \in Topics : handleSubscribe(c, tp) \/ handleUnsubscribe(c, tp)
  \/ \E tp \in Topics, m \in MsgIds : handlePublish(c, tp, m) \/ handleAck(c, tp, m)
  \/ \E y \in {"init_file", "end_file"}, tp \in Topics, f \in FileIds :
       handleFileSignal(c, y, tp, f)
  \/ \E f \in FileIds : handleBinaryMessage(c, MinBinaryLength, ChunkType, f)
  \/ \E u \in Users, v \in BOOLEAN : handleFCMTokenRegistration(c, u, v)

DropCloses ==
  [][\A a \in BagToSet(admin) :
       a.op = "dropSession" /\ dropSessionDone(a)
       => /\ \A c \in Conns :
               clientSession[c] = a.sessionName => readyState'[c] # OPEN
          /\ \A t \in Topics : activeSubscribers'[a.sessionName][t] = <<>>]_vars

\* C22 (drop purges storage): when dropSession answers success, storage
\* holds neither the session's row nor a cached message whose sessionName is
\* the session's.
DropPurges ==
  [][\A a \in BagToSet(admin) :
       a.op = "dropSession" /\ dropSessionDone(a)
       => /\ ~sessions'[a.sessionName].exists
          /\ \A m \in MsgIds :
               ~(messages'[m].exists /\ messages'[m].sessionName = a.sessionName)]_vars

\* C23 (drop is idempotent): a dropSession that presents the name and the
\* credentials of a session whose drop has answered success answers success
\* too and changes nothing.
DropIdempotent ==
  [][\A a \in BagToSet(admin) :
       /\ a.op = "dropSession"
       /\ a.password = "pw" /\ a.secretKey \in hist.dropped
       /\ ~a.session.exists
       /\ dropSessionDelete(a)
       => /\ \E f \in out' : f.type = "http" /\ f.success
          /\ UNCHANGED <<broker, conns, tasks>>]_vars

\* ======================================================= fault properties
\* C24 (storage failures do not stop the fan-out): whatever storage call of
\* a publish handler fails, the step that follows the session load sends
\* the `message` frame to every open subscriber of the topic other than the
\* sender, and the step that ends the handler sends the sender
\* publish_response{success:true}.
FaultTolerantPublish ==
  [][\A t \in BagToSet(tasks) :
       t.kind = "publish" =>
         /\ /\ t.pc = "session"
            /\ ~Refused(getSession(clientSession[t.ws]))
            /\ publishFanout(t) \/ publishSessionFails(t) \/ publishCacheFails(t)
            => \A c \in Live(t.ws, t.topic) :
                 \E f \in out' : /\ f.type = "message" /\ f.to = c
                                 /\ f.messageId = t.messageId
         /\ /\ readyState[t.ws] = OPEN
            /\ ~Refused(getSession(clientSession[t.ws]))
            /\ tasks' = Retire(tasks, t)
            => \E f \in out' : /\ f.type = "publish_response" /\ f.to = t.ws
                               /\ f.success]_vars

\* C25 (frame errors are local): the step that handles a frame of an unknown
\* type, or a text frame that is not JSON, sends one error reply to the
\* sender and nothing to anyone else, and leaves the connection's state
\* (readyState, bound session, subscriptions, upload table), every other
\* connection, the sessions, the subscriber index, the cache, the timers and
\* the handlers in flight as they are.
FrameErrorLocal ==
  [][\A c \in Conns, e \in {"Unknown message type", "Internal server error"} :
       handleOther(c, e)
       => /\ out' \subseteq {Reply(c, "error", FALSE, e)}
          /\ readyState[c] = OPEN => out' # {}
          /\ UNCHANGED <<broker, conns, tasks, admin>>]_vars

\* A bound connection with an upload, and a subscriber, have state, a message
\* is cached, and one of them has just been answered an error for a frame.
FrameErrorLocalWitness ==
  /\ \E f \in out : /\ f.type = "error"
                    /\ f.error \in {"Unknown message type", "Internal server error"}
                    /\ clientSession[f.to] = "A"
  /\ activeUploads["c1"]["F"] # Null
  /\ clientSubscriptions["c2"] # {}
  /\ getSubscribers("A", "t") # <<>>
  /\ \E m \in MsgIds : messages[m].exists
  /\ \A c \in {"c1", "c2"} : readyState[c] = OPEN

\* ================================================= subscription properties
\* C26 (snapshot fan-out): a connection whose unsubscribe from the topic was
\* handled before a publish read the subscriber list is sent no `message`
\* frame of that publish, neither by the fan-out nor by a retry.
SnapshotFanout ==
  \A k \in DOMAIN hist.items :
    \A c \in hist.items[k].left : hist.items[k].got[c] = 0

\* C27 (close releases): a connection that has closed is in no subscriber
\* list of any session and topic, and its upload table is empty.
CloseReleases ==
  \A c \in Conns :
    readyState[c] = CLOSED =>
      /\ \A s \in Sessions, tp \in Topics : c \notin Range(getSubscribers(s, tp))
      /\ \A f \in FileIds : activeUploads[c][f] = Null

\* ====================================================== storage properties
\* A row the cleanup job that read the clock at `at` is meant to destroy.
ExpiredAt(expiry, at) == expiry # 0 /\ expiry < at

\* C28 (cleanup is exact): the message statement of cleanupExpired destroys
\* every message whose expiryTime is set and lies before the time the job
\* read and leaves every other message row as it is; the session statement
\* does the same for sessions and sessionExpiry; and when the job returns no
\* message and no session that is expired at that time is left in storage.
CleanupExact ==
  [][/\ cleanupExpired
          => \A m \in MsgIds :
               IF messages[m].exists /\ ExpiredAt(messages[m].expiryTime, now)
               THEN ~messages'[m].exists
               ELSE messages'[m] = messages[m]
     /\ \A a \in BagToSet(admin) :
          a.op = "cleanup" /\ cleanupSessions(a)
          => /\ \A s \in Sessions :
                  IF sessions[s].exists /\ ExpiredAt(sessions[s].sessionExpiry, a.at)
                  THEN ~sessions'[s].exists
                  ELSE sessions'[s] = sessions[s]
             /\ \A m \in MsgIds :
                  ~(messages'[m].exists /\ ExpiredAt(messages'[m].expiryTime, a.at))
             /\ \A s \in Sessions :
                  ~(sessions'[s].exists /\ ExpiredAt(sessions'[s].sessionExpiry, a.at))]_vars

\* The job has run: the session c1 is bound to and one cached message, whose
\* retry timer is still armed, are gone, while a session and a message that
\* both carry an expiry that has not passed are still stored.
CleanupExactWitness ==
  /\ \A a \in BagToSet(admin) : a.op # "cleanup"
  /\ clientSession["c1"] = "A" /\ ~sessions["A"].exists
  /\ sessions["B"].exists /\ sessions["B"].sessionExpiry # 0
  /\ ~messages["m1"].exists /\ TimersOf("m1") # {}
  /\ messages["m2"].exists /\ messages["m2"].expiryTime # 0

\* C29 (subscriber index round trip): a subscribe of a bound connection
\* leaves it in the list of its session and topic exactly once, the list
\* unchanged when it was there and with the connection appended otherwise; an
\* unsubscribe leaves the list without the connection and with the others in
\* their order; neither touches the list of another session or topic; and
\* the list of a session that storage does not know is empty.
SubscriberIndex ==
  [][\A c \in Conns, tp \in Topics :
       LET s == clientSession[c]
           before == getSubscribers(s, tp)
           after == activeSubscribers'[s][tp]
           elsewhere ==
             \A s2 \in Sessions, t2 \in Topics :
               <<s2, t2>> # <<s, tp>>
               => activeSubscribers'[s2][t2] = activeSubscribers[s2][t2]
       IN
       /\ s # Null /\ handleSubscribe(c, tp)
          => /\ Cardinality({i \in 1..Len(after) : after[i] = c}) = 1
             /\ after = IF c \in Range(before) THEN before ELSE Append(before, c)
             /\ elsewhere
       /\ s # Null /\ handleUnsubscribe(c, tp)
          => /\ c \notin Range(after)
             /\ after = SelectSeq(before, LAMBDA x : x # c)
             /\ elsewhere
       /\ \A s2 \in Sessions :
            ~sessions'[s2].exists => activeSubscribers'[s2][tp] = <<>>]_vars

\* c2 subscribed to t after c3 and is behind it in the list, it has just
\* been answered a subscribe to u and is in that list once, and session B,
\* which does not exist, has no subscribers.
SubscriberIndexWitness ==
  /\ getSubscribers("A", "t") = <<"c3", "c2">>
  /\ getSubscribers("A", "u") = <<"c2">>
  /\ \E f \in out : f.type = "subscribe_response" /\ f.to = "c2" /\ f.topic = "u"
  /\ clientSubscriptions["c2"] = {"t", "u"}
  /\ ~sessions["B"].exists

\* C30 (cached messages terminate): when no handler, retry callback or admin
\* request is in flight, every message in storage has a live retry timer or
\* an expiryTime the cleanup job acts on, so that a timer can still bring
\* it to its terminal event.
CacheTerminates ==
  \A m \in MsgIds :
    tasks = EmptyBag /\ admin = EmptyBag /\ messages[m].exists
    => TimersOf(m) # {} \/ messages[m].expiryTime # 0

RetryCountMonotonic ==
  [][\A m \in MsgIds :
       messages[m].exists /\ messages'[m].exists
       => messages'[m].retryCount >= messages[m].retryCount]_vars

\* ------------------------------------------------------------- SpecShare
\* Two tenants that use the same messageId: c1 publishes m1 in A to the
\* subscriber c2; c3, bound to B, acknowledges m1 or publishes an m1 of its
\* own.
NextShare ==
  \/ Fresh("A") /\ createSession("A", "pw", 1, 1, 0, 0)
  \/ sessions["A"].exists /\ Fresh("B") /\ createSession("B", "pw", 1, 1, 0, 0)
  \/ ResumeCreate
  \/ \E c \in {"c1", "c2"} : sessions["B"].exists /\ New(c) /\ handleInit(c, "A", "pw", Null)
  \/ sessions["B"].exists /\ New("c3") /\ handleInit("c3", "B", "pw", Null)
  \/ ResumeInit
  \/ Joins("c2", "t") /\ handleSubscribe("c2", "t")
  \/ /\ hist.publishes = 0 /\ "c2" \in Range(getSubscribers("A", "t"))
     /\ handlePublish("c1", "t", "m1")
  \/ hist.publishes = 1 /\ handlePublish("c3", "t", "m1")
  \/ hist.publishes = 1 /\ hist.acked = {} /\ handleAck("c3", "t", "m1")
  \/ ResumePublish
  \/ ResumeRetry
  \/ Tick

SpecShare == Init /\ [][NextShare]_vars

\* ------------------------------------------------------------ SpecPrefix
\* Two tenants of which one is named like the other followed by ':' and
\* more: a message of "A:x" is being retried when "A" is dropped.
NextPrefix ==
  \/ Fresh("A:x") /\ hist.requests = 0 /\ createSession("A:x", "pw", 1, 1, 0, 0)
  \/ Fresh("A") /\ hist.requests = 1 /\ createSession("A", "pw", 1, 1, 0, 0)
  \/ ResumeCreate
  \/ \E c \in {"c1", "c2"} : New(c) /\ handleInit(c, "A:x", "pw", Null)
  \/ ResumeInit
  \/ Joins("c2", "t") /\ handleSubscribe("c2", "t")
  \/ \E m \in MsgIds :
       hist.publishes = (IF m = "m1" THEN 0 ELSE 1) /\ handlePublish("c1", "t", m)
  \/ ResumePublish
  \/ ResumeSchedule
  \/ /\ Known("A") /\ hist.requests = 2
     /\ dropSession("A", "pw", sessions["A"].secretKey)
  \/ ResumeDrop

SpecPrefix == Init /\ [][NextPrefix]_vars

\* ------------------------------------------------------------ SpecReborn
\* A tenant that is dropped and created again with another password. Every
\* init frame is received before the drop is requested, so a connection that
\* is bound was authenticated to the session that was dropped.
NextReborn ==
  \/ Fresh("A") /\ hist.requests = 0 /\ createSession("A", "pw", 1, 1, 0, 0)
  \/ ResumeCreate
  \/ \E c \in {"c1", "c2"} :
       hist.requests = 1 /\ New(c) /\ handleInit(c, "A", "pw", Null)
  \/ ResumeInit
  \/ \E c \in {"c1", "c2"} : Joins(c, "t") /\ handleSubscribe(c, "t")
  \/ /\ Known("A") /\ hist.requests = 1
     /\ dropSession("A", "pw", sessions["A"].secretKey)
  \/ ResumeDrop
  \/ /\ Fresh("A") /\ hist.dropped # {} /\ hist.requests = 2
     /\ createSession("A", "bad", 1, 1, 0, 0)
  \/ hist.publishes = 0 /\ handlePublish("c1", "t", "m1")
  \/ ResumePublish
  \/ ResumeSchedule

SpecReborn == Init /\ [][NextReborn]_vars

EndFileDrops ==
  [][\A i \in 1..Len(hist.sent) :
       /\ hist.sent[i].type = "end_file"
       /\ \A j \in (i + 1)..Len(hist.sent) :
            ~ /\ hist.sent[j].type = "init_file"
              /\ hist.sent[j].from = hist.sent[i].from
              /\ hist.sent[j].fileId = hist.sent[i].fileId
       /\ Len(hist.sent') = Len(hist.sent) + 1
       /\ hist.sent'[Len(hist.sent')].type = "binary"
       /\ hist.sent'[Len(hist.sent')].from = hist.sent[i].from
       /\ hist.sent'[Len(hist.sent')].fileId = hist.sent[i].fileId
       => out' = {}]_vars

\* ========================================================== drop and timers
\* C35 (dropSession cancels the retries): once dropSession of a session has
\* answered success, and the name has not been created again, no retry timer
\* of a message of that session is live, the timers armed by a publish or a
\* retry callback that was in progress during the drop included.
DropCancelsTimers ==
  \A s \in Sessions :
    /\ hist.dropped # {}
    /\ ~sessions[s].exists
    /\ \A a \in BagToSet(admin) : a.sessionName # s
    => \A tm \in timers : tm.sessionName # s

\* ===================================================== subscribers' binding
\* C36 (subscribers are bound to their session): every connection in the
\* subscriber list of a session and topic is at that moment bound to that
\* session, also after an init of a connection that was already bound.
SubscribersBound ==
  \A s \in Sessions, tp \in Topics :
    \A c \in Range(activeSubscribers[s][tp]) : clientSession[c] = s

\* ============================================================ shared cache
\* C37 (the cache is per tenant): while a message of one session is cached,
\* an ack frame of a connection bound to another session and every step of
\* a publish of another session that carry the same messageId leave the
\* cached message and the retry timers of its session as they are.
CacheIsolated ==
  [][\A m \in MsgIds :
       LET owner == messages[m].sessionName
           kept == /\ messages'[m] = messages[m]
                   /\ {tm \in timers' : tm.sessionName = owner}
                      = {tm \in timers : tm.sessionName = owner}
       IN
       /\ \A c \in Conns, tp \in Topics :
            /\ messages[m].exists
            /\ clientSession[c] \notin {Null, owner}
            /\ handleAck(c, tp, m)
            => kept
       /\ \A t \in BagToSet(tasks) :
            /\ messages[m].exists
            /\ t.kind = "publish" /\ t.messageId = m /\ t.sessionName # owner
            /\ \/ publishFanout(t) \/ publishCached(t) \/ publishReply(t)
               \/ scheduleRetry(t) \/ scheduleRetryArm(t)
            => kept]_vars

\* ======================================================== clearSession scope
\* C38 (clearSession is per session): when dropSession of a session answers,
\* every retry timer of another session that was armed is still armed and
\* still stored under its key, also when the other session's name is the
\* dropped name followed by ':' and more characters.
ClearSessionScoped ==
  [][\A a \in BagToSet(admin) :
       a.op = "dropSession" /\ dropSessionDone(a)
       => /\ \A tm \in timers : tm.sessionName # a.sessionName => tm \in timers'
          /\ \A k \in DOMAIN retryTimers :
               (\A tp \in Topics, m \in MsgIds : k # timerKey(a.sessionName, tp, m))
               => k \in DOMAIN retryTimers' /\ retryTimers'[k] = retryTimers[k]]_vars

\* ========================================================= session reborn
\* C39 (a new session of an old name): once a session was dropped and its
\* name created again, a connection that was authenticated to the dropped
\* session and has sent no init since is answered no successful
\* subscribe_response or publish_response and is sent no `message` frame in
\* the new session.
RebornShut ==
  \A s \in Sessions :
    /\ hist.dropped # {}
    /\ sessions[s].exists /\ sessions[s].secretKey \notin hist.dropped
    => \A f \in out :
         /\ f.type \in {"subscribe_response", "publish_response"} /\ f.success
            => clientSession[f.to] # s
         /\ f.type = "message" => f.sessionName # s

\* ======================================================== no echo to sender
\* C40 (no echo): no connection is sent a `message` frame with a payload it
\* published itself, by the fan-out or by a retry, also when it is subscribed
\* to the topic it published to.
NoEcho ==
  \A k \in 1..Len(hist.items) : hist.items[k].got[hist.items[k].by] = 0

====
